---- MODULE Spec2Model ----
(***************************************************************************)
(* A model of the academic-mcp document pipeline: the SQLite document      *)
(* store (internal/storage/sqlite.go), the get-or-parse orchestrator       *)
(* (internal/operations/operations.go), the PDF page fan-out               *)
(* (internal/llm, parsePDF) and the rate governor                          *)
(* (internal/llm/ratelimit.go).                                            *)
(***************************************************************************)
EXTENDS Integers, Sequences, FiniteSets, TLC

VARIABLES
    db,       \* the SQLite database: one function per table, keyed by primary key
    lastOp,   \* the store call that produced the current state, with its arguments and outcome
    calls,    \* per caller: the GetOrParseDocument call it is in (position, locals, result)
    lastStored, \* per document id in the store: the item returned by the call that stored it last
    pdf,      \* one parsePDF run: the main goroutine's position, the page goroutines, the results channel
    inflight, \* the LLM requests that have been sent and not yet answered
    rl,       \* one RateLimitedCall: position, attempt counter, what it has done so far
    tokens,   \* the level of the shared token bucket (openAIRateLimiter)
    ctxDone,  \* whether the context handed to the calls has been cancelled
    pp,       \* one ParallelProcess run: the spawning loop, the workers, the result channel
    batch,    \* one tool-handler run: its inputs, the element goroutines, the results slice
    aug,      \* per document id: the summary and the quotations the handlers last stored for it, and the summary the quotations handler last generated
    quot,     \* one ExtractQuotations call: its arguments, what the LLM answered, what it returned
    gen,      \* one GenerateDocumentID call: its arguments and the id it returned
    pnum,     \* one ValidateAndNormalizePageNumbers call: the page infos and the labels returned
    eq,       \* one extractQuotationsFromPages call: its page goroutines and its results channel
    rsrc,     \* one ReadResource call: the URI read and what was returned
    ck,       \* one GenerateCitekey call: the metadata, the existing keys and the key returned
    fetch     \* one GetData call and the GetOrParseDocument steps that follow it

vars == <<db, lastOp, calls, lastStored, pdf, inflight, rl, tokens, ctxDone, pp, batch, aug,
          quot, gen, pnum, eq, rsrc, ck, fetch>>

storeVars == <<db, lastOp>>
orchVars == <<calls, lastStored>>
llmVars == <<pdf, inflight, rl, tokens, ctxDone>>
auxVars == <<eq, rsrc, ck, fetch>>
fnVars == <<quot, gen, pnum, auxVars>>
toolVars == <<pp, batch, aug, fnVars>>

(***************************************************************************)
(* Bounds of the model.                                                    *)
(***************************************************************************)
\* longest page list / child list of a document handed to the store
MaxLen == 2

(***************************************************************************)
(* Data: models.ParsedItem and its parts.                                  *)
(***************************************************************************)
\* Two document versions: what two different parses of a source can produce.
Versions == {"v1", "v2"}

\* models.ItemMetadata: the six bibliographic fields plus the source tag.
ItemMetadata(v, tag) ==
    [Title |-> "title-" \o v, Authors |-> <<"author-" \o v>>,
     PublicationDate |-> "2020", Publication |-> "venue-" \o v,
     DOI |-> "doi-" \o v, Abstract |-> "abs-" \o v,
     ItemType |-> "", MetadataSource |-> tag]

Reference(v, i) == [ReferenceText |-> "ref-" \o v \o "-" \o ToString(i), DOI |-> ""]
Image(v, i) == [ImageURL |-> "", ImageDescription |-> "img-" \o v \o "-" \o ToString(i), Caption |-> ""]
Table(v, i) == [TableID |-> ToString(i), TableTitle |-> "tbl-" \o v, TableData |-> ""]
Footnote(v, i) == [Marker |-> ToString(i), Text |-> "fn-" \o v, PageNumber |-> "1", InTextPage |-> "1"]
Endnote(v, i) == [Marker |-> ToString(i), Text |-> "en-" \o v, PageNumber |-> "1"]

\* Display labels a parse can attach to n pages: printed labels on every
\* page, an unnumbered first page (""), or no labels at all.
SourceLabels == <<"iv", "v", "vi", "vii">>
PageNumberChoices(n) ==
    { [i \in 1..n |-> SourceLabels[i]],
      [i \in 1..n |-> IF i = 1 THEN "" ELSE SourceLabels[i]],
      << >> }

\* models.ParsedItem of version v with n pages and n references, and
\* MaxLen - n images, tables, footnotes and endnotes: of two documents of
\* different sizes each is the longer one in some child kind.
ParsedItem(v, tag, n, labels) ==
    [Metadata |-> ItemMetadata(v, tag),
     Pages |-> [i \in 1..n |-> "page-" \o v \o "-" \o ToString(i)],
     PageNumbers |-> labels,
     References |-> [i \in 1..n |-> Reference(v, i)],
     Images |-> [i \in 1..(MaxLen - n) |-> Image(v, i)],
     Tables |-> [i \in 1..(MaxLen - n) |-> Table(v, i)],
     Footnotes |-> [i \in 1..(MaxLen - n) |-> Footnote(v, i)],
     Endnotes |-> [i \in 1..(MaxLen - n) |-> Endnote(v, i)]]

\* The documents handed to StoreParsedItem.
Items ==
    UNION { { ParsedItem(v, "extracted", n, l) : l \in PageNumberChoices(n) } :
            <<v, n>> \in Versions \X (0..MaxLen) }

\* The source a document id was generated from (GenerateDocumentID).
SourceInfoOf(docID) ==
    IF docID = "zotero_Z1" THEN [ZoteroID |-> "Z1", URL |-> ""]
    ELSE [ZoteroID |-> "", URL |-> "http://u1"]

\* The id the store operations are exercised on.
StoreIDs == {"zotero_Z1"}

(***************************************************************************)
(* The database (initSchema): a documents table keyed by id and six child  *)
(* tables keyed by (document_id, index).                                   *)
(***************************************************************************)
ChildTables == {"pages", "document_references", "images", "document_tables", "footnotes", "endnotes"}

EmptyTable == [k \in {} |-> 0]

\* initSchema: CREATE TABLE IF NOT EXISTS on a fresh database file.
initSchema ==
    [documents |-> EmptyTable, pages |-> EmptyTable, document_references |-> EmptyTable,
     images |-> EmptyTable, document_tables |-> EmptyTable, footnotes |-> EmptyTable,
     endnotes |-> EmptyTable]

\* NewSQLiteStore opens the database with sql.Open("sqlite3", dbPath) and runs
\* no PRAGMA foreign_keys = ON (nor a _foreign_keys DSN flag): SQLite leaves the
\* enforcement of FOREIGN KEY clauses, ON DELETE CASCADE included, switched off.
foreignKeysEnforced == FALSE

\* INSERT OR REPLACE of one row by primary key.
Put(f, k, row) == [x \in (DOMAIN f) \cup {k} |-> IF x = k THEN row ELSE f[x]]

\* The rows of a child table that belong to document id.
RowsOf(f, id) == { k \in DOMAIN f : k[1] = id }

Without(f, keys) == [x \in (DOMAIN f) \ keys |-> f[x]]

\* FOREIGN KEY (document_id) REFERENCES documents(id) ON DELETE CASCADE, on
\* every child table: takes effect only when foreign keys are enforced.
OnDeleteCascade(d, id) ==
    IF foreignKeysEnforced
    THEN [t \in DOMAIN d |-> IF t \in ChildTables THEN Without(d[t], RowsOf(d[t], id)) ELSE d[t]]
    ELSE d

\* DELETE FROM documents WHERE id = ?
DeleteRow(d, id) ==
    LET d1 == [d EXCEPT !.documents = Without(@, {id})]
    IN IF id \in DOMAIN d.documents THEN OnDeleteCascade(d1, id) ELSE d

\* One statement of StoreParsedItem applied to the transaction's view of the
\* database. INSERT OR REPLACE INTO documents removes a conflicting row first
\* (a delete, with its foreign-key actions) and then inserts.
ExecContext(d, st) ==
    IF st.table = "documents"
    THEN [DeleteRow(d, st.key) EXCEPT !.documents = Put(@, st.key, st.row)]
    ELSE [d EXCEPT ![st.table] = Put(@, st.key, st.row)]

\* fmt.Sprintf("%d", i+1) unless item.PageNumbers has a non-empty label there.
\* i is the 1-based position (Go's i+1).
sourcePageNum(item, i) ==
    IF i <= Len(item.PageNumbers) /\ item.PageNumbers[i] # ""
    THEN item.PageNumbers[i]
    ELSE ToString(i)

\* The statements StoreParsedItem executes, in the order of the code: the
\* documents row, then pages (page_number = i+1), then references, images,
\* tables, footnotes and endnotes (index = i, 0-based).
StoreStatements(docID, item, sourceInfo) ==
    << [table |-> "documents", key |-> docID,
        row |-> [title |-> item.Metadata.Title, authors |-> item.Metadata.Authors,
                 publication_date |-> item.Metadata.PublicationDate,
                 publication |-> item.Metadata.Publication, doi |-> item.Metadata.DOI,
                 abstract |-> item.Metadata.Abstract,
                 zotero_id |-> sourceInfo.ZoteroID, url |-> sourceInfo.URL]] >>
    \o [i \in 1..Len(item.Pages) |->
          [table |-> "pages", key |-> <<docID, i>>,
           row |-> [source_page_number |-> sourcePageNum(item, i), content |-> item.Pages[i]]]]
    \o [i \in 1..Len(item.References) |->
          [table |-> "document_references", key |-> <<docID, i - 1>>, row |-> item.References[i]]]
    \o [i \in 1..Len(item.Images) |->
          [table |-> "images", key |-> <<docID, i - 1>>, row |-> item.Images[i]]]
    \o [i \in 1..Len(item.Tables) |->
          [table |-> "document_tables", key |-> <<docID, i - 1>>, row |-> item.Tables[i]]]
    \o [i \in 1..Len(item.Footnotes) |->
          [table |-> "footnotes", key |-> <<docID, i - 1>>, row |-> item.Footnotes[i]]]
    \o [i \in 1..Len(item.Endnotes) |->
          [table |-> "endnotes", key |-> <<docID, i - 1>>, row |-> item.Endnotes[i]]]

\* The first n statements executed inside the transaction.
RECURSIVE ExecStatements(_, _, _)
ExecStatements(d, stmts, n) ==
    IF n = 0 THEN d ELSE ExecContext(ExecStatements(d, stmts, n - 1), stmts[n])

\* defer tx.Rollback(): on an error return the transaction's writes are dropped.
MutRollback(before, inTx) == inTx
Rollback(before, inTx) == before

\* Where a StoreParsedItem call can fail: 0 nowhere, 1 in BeginTx, 1+k in its
\* k-th statement, Len(stmts)+2 in Commit.
FailPoints(stmts) == 0..(Len(stmts) + 2)

\* The database after StoreParsedItem(docID, item, sourceInfo) failing at failAt.
StoreParsedItemDB(d, docID, item, sourceInfo, failAt) ==
    LET stmts == StoreStatements(docID, item, sourceInfo)
    IN IF failAt = 0 THEN ExecStatements(d, stmts, Len(stmts))
       ELSE IF failAt = 1 THEN d
       ELSE IF failAt = Len(stmts) + 2 THEN Rollback(d, ExecStatements(d, stmts, Len(stmts)))
       ELSE Rollback(d, ExecStatements(d, stmts, failAt - 2))

(***************************************************************************)
(* Reads.                                                                  *)
(***************************************************************************)
\* The rows of table f for document id, ORDER BY the index column.
RECURSIVE OrderByIndex(_, _)
OrderByIndex(f, keys) ==
    IF keys = {} THEN << >>
    ELSE LET k == CHOOSE x \in keys : \A y \in keys : x[2] <= y[2]
         IN <<f[k]>> \o OrderByIndex(f, keys \ {k})

SelectRows(d, table, id) == OrderByIndex(d[table], RowsOf(d[table], id))

\* SELECT EXISTS(SELECT 1 FROM documents WHERE id = ?)
DocumentExists(d, id) == id \in DOMAIN d.documents

\* GetMetadata: the six columns it selects; the other fields of ItemMetadata
\* keep Go's zero value.
GetMetadata(d, id) ==
    LET row == d.documents[id]
    IN [Title |-> row.title, Authors |-> row.authors, PublicationDate |-> row.publication_date,
        Publication |-> row.publication, DOI |-> row.doi, Abstract |-> row.abstract,
        ItemType |-> "", MetadataSource |-> ""]

GetPages(d, id) ==
    LET rows == SelectRows(d, "pages", id) IN [i \in 1..Len(rows) |-> rows[i].content]

\* GetPageMapping: map[source_page_number] = page_number, filled in page_number
\* order, so a label carried by two pages maps to the later one.
GetPageMapping(d, id) ==
    LET keys == RowsOf(d.pages, id)
        labels == { d.pages[k].source_page_number : k \in keys }
    IN [l \in labels |->
          CHOOSE n \in { k[2] : k \in keys } :
              /\ d.pages[<<id, n>>].source_page_number = l
              /\ \A k \in keys : d.pages[k].source_page_number = l => k[2] <= n]

GetReferences(d, id) == SelectRows(d, "document_references", id)
GetImages(d, id) == SelectRows(d, "images", id)
GetTables(d, id) == SelectRows(d, "document_tables", id)
GetFootnotes(d, id) == SelectRows(d, "footnotes", id)
GetEndnotes(d, id) == SelectRows(d, "endnotes", id)

\* The error value of the store's reads ("document not found").
NotFound == [error |-> "document not found"]

\* GetParsedItem: GetMetadata fails when the documents row is absent; the
\* PageNumbers slice has one slot per page, filled from the page mapping.
GetParsedItem(d, id) ==
    IF ~DocumentExists(d, id) THEN NotFound
    ELSE LET pages == GetPages(d, id)
             mapping == GetPageMapping(d, id)
         IN [Metadata |-> GetMetadata(d, id),
             Pages |-> pages,
             PageNumbers |->
                 [i \in 1..Len(pages) |->
                     IF \E l \in DOMAIN mapping : mapping[l] = i
                     THEN CHOOSE l \in DOMAIN mapping : mapping[l] = i
                     ELSE ""],
             References |-> GetReferences(d, id),
             Images |-> GetImages(d, id),
             Tables |-> GetTables(d, id),
             Footnotes |-> GetFootnotes(d, id),
             Endnotes |-> GetEndnotes(d, id)]

\* Everything a client can read about one id: existence, the document, and
\* each child collection on its own (the resource reads).
ReadAll(d, id) ==
    [exists |-> DocumentExists(d, id),
     item |-> GetParsedItem(d, id),
     pages |-> SelectRows(d, "pages", id),
     references |-> GetReferences(d, id),
     images |-> GetImages(d, id),
     tables |-> GetTables(d, id),
     footnotes |-> GetFootnotes(d, id),
     endnotes |-> GetEndnotes(d, id)]

(***************************************************************************)
(* Store operations as actions.                                            *)
(***************************************************************************)
NoOp == [op |-> "none"]

\* most inputs in one handler run (one goroutine, and one
\* GetOrParseDocument call, per input)
MaxBatch == 2

\* the goroutines that can be inside GetOrParseDocument at once
CallerNames == <<"c1", "c2", "c3", "c4">>
Callers == { CallerNames[i] : i \in 1..MaxBatch }

Idle == [pc |-> "idle"]

\* rate.NewLimiter(rate.Limit(tokensPerSecond), burstTokens): the bucket starts full.
tokensPerSecond == 30000
burstTokens == 60000

\* After construction: an empty database (NewSQLiteStore), no call under way,
\* a full token bucket, a live context.
Init ==
    /\ db = initSchema
    /\ lastOp = NoOp
    /\ calls = [c \in Callers |-> Idle]
    /\ lastStored = EmptyTable
    /\ pdf = Idle
    /\ inflight = {}
    /\ rl = Idle
    /\ tokens = burstTokens
    /\ ctxDone = FALSE
    /\ pp = Idle
    /\ batch = Idle
    /\ aug = EmptyTable
    /\ quot = Idle
    /\ gen = Idle
    /\ pnum = Idle
    /\ eq = Idle
    /\ rsrc = Idle
    /\ ck = Idle
    /\ fetch = Idle

\* s.StoreParsedItem(ctx, docID, item, sourceInfo)
StoreParsedItem(docID, item, sourceInfo, failAt) ==
    /\ db' = StoreParsedItemDB(db, docID, item, sourceInfo, failAt)
    /\ lastOp' = IF failAt = 0
                 THEN [op |-> "store", id |-> docID, item |-> item, failAt |-> 0,
                       err |-> FALSE, existed |-> DocumentExists(db, docID)]
                 ELSE [op |-> "store", id |-> docID, failAt |-> failAt,
                       err |-> TRUE, existed |-> DocumentExists(db, docID)]
    /\ UNCHANGED <<orchVars, llmVars, toolVars>>

\* s.DeleteDocument(ctx, docID): "document not found" when no row was affected.
DeleteDocument(docID) ==
    /\ db' = DeleteRow(db, docID)
    /\ lastOp' = [op |-> "delete", id |-> docID, err |-> ~DocumentExists(db, docID)]
    /\ lastStored' = Without(lastStored, {docID})
    /\ UNCHANGED <<calls, llmVars, toolVars>>

StoreNext ==
    \/ \E docID \in StoreIDs, item \in Items :
          \E failAt \in FailPoints(StoreStatements(docID, item, SourceInfoOf(docID))) :
              StoreParsedItem(docID, item, SourceInfoOf(docID), failAt)
    \/ \E docID \in StoreIDs : DeleteDocument(docID)

SpecStore == Init /\ [][StoreNext]_vars

(***************************************************************************)
(* Claims about the store, checked under SpecStore.                        *)
(***************************************************************************)
StoreSucceeded == lastOp.op = "store" /\ ~lastOp.err
StoreFailed == lastOp.op = "store" /\ lastOp.err

\* C3: after a successful store(id, D2) on an id that already held a document,
\* each child kind read back for that id is exactly D2's list: no row of the
\* earlier document with an index beyond D2's length is still readable.
C3_StoreReplacesChildren ==
    (StoreSucceeded /\ lastOp.existed) =>
        /\ GetPages(db, lastOp.id) = lastOp.item.Pages
        /\ GetReferences(db, lastOp.id) = lastOp.item.References
        /\ GetImages(db, lastOp.id) = lastOp.item.Images
        /\ GetTables(db, lastOp.id) = lastOp.item.Tables
        /\ GetFootnotes(db, lastOp.id) = lastOp.item.Footnotes
        /\ GetEndnotes(db, lastOp.id) = lastOp.item.Endnotes

\* C4: a store(id, D) call that fails, at BeginTx, at any statement or at
\* Commit, changes nothing a client can read for that id.
C4_FailedStoreLeavesReadsUnchanged ==
    [][(lastOp'.op = "store" /\ lastOp'.err) =>
          ReadAll(db', lastOp'.id) = ReadAll(db, lastOp'.id)]_vars

\* C4 witness: a store onto an existing document failed after its root upsert
\* and at least one child insert had run inside the transaction.
C4_Witness ==
    /\ StoreFailed
    /\ lastOp.existed
    /\ lastOp.failAt > 3
    /\ Len(GetPages(db, lastOp.id)) > 0

\* C5: after store(id, D) succeeds, getParsedDocument(id) equals D on metadata,
\* pages, references, images, tables, footnotes, endnotes and page labels.
C5_StoreRoundTrip ==
    StoreSucceeded => GetParsedItem(db, lastOp.id) = lastOp.item

\* C6: after delete(id) succeeds, no child table holds a row for that id.
C6_DeleteCascades ==
    (lastOp.op = "delete" /\ ~lastOp.err) =>
        \A t \in ChildTables : RowsOf(db[t], lastOp.id) = {}

(***************************************************************************)
(* The orchestrator: operations.GetOrParseDocument.                        *)
(***************************************************************************)
\* sha256.Sum256(x)[:8] in hex, on the inputs of the model.
Sha256Hex8(x) ==
    CASE x = "http://u1" -> "h1"
      [] x = "bytes-b1" -> "h2"
      [] OTHER -> "h0"

\* storage.GenerateDocumentID: Zotero ID > URL hash > document data hash.
MutGenerateDocumentID(sourceInfo, data) ==
    IF sourceInfo.URL # "" THEN "url_" \o Sha256Hex8(sourceInfo.URL)
    ELSE IF sourceInfo.ZoteroID # "" THEN "zotero_" \o sourceInfo.ZoteroID
    ELSE "data_" \o Sha256Hex8(data)
GenerateDocumentID(sourceInfo, data) ==
    IF sourceInfo.ZoteroID # "" THEN "zotero_" \o sourceInfo.ZoteroID
    ELSE IF sourceInfo.URL # "" THEN "url_" \o Sha256Hex8(sourceInfo.URL)
    ELSE "data_" \o Sha256Hex8(data)

\* The callers' requests: a Zotero attachment (a PDF, fetched) and inline
\* bytes (plain text), with and without a type override. rawData = "" stands
\* for Go's nil slice.
Requests ==
    { [zoteroID |-> "Z1", url |-> "", rawData |-> "", docType |-> ""],
      [zoteroID |-> "", url |-> "", rawData |-> "bytes-b1", docType |-> ""],
      [zoteroID |-> "", url |-> "", rawData |-> "bytes-b1", docType |-> "docx"] }

\* documents.DetectDocumentType on the payloads of the model.
DetectDocumentType(data) ==
    CASE data = "empty" -> "unknown"
      [] data = "bytes-b1" -> "txt"
      [] data = "html-h1" -> "html"
      [] data = "zip-snapshot" -> "zotero-snapshot"
      [] data = "zip-other" -> "zip"
      [] OTHER -> "pdf"

\* What the Zotero library holds for item Z1.
ZoteroFile == "pdf-z1"
ZoteroMetadata ==
    [Title |-> "title-zotero", Authors |-> << >>, PublicationDate |-> "2019",
     Publication |-> "", DOI |-> "", Abstract |-> "", ItemType |-> "journalArticle",
     MetadataSource |-> "zotero"]

Nil == [nil |-> TRUE]

\* documents.MergeMetadata(external, extracted), both non-nil: the external
\* value where it is non-empty, the additional fields from external only.
MergeMetadata(external, extracted) ==
    [Title |-> IF external.Title # "" THEN external.Title ELSE extracted.Title,
     Authors |-> IF Len(external.Authors) > 0 THEN external.Authors ELSE extracted.Authors,
     PublicationDate |-> IF external.PublicationDate # "" THEN external.PublicationDate
                         ELSE extracted.PublicationDate,
     Publication |-> IF external.Publication # "" THEN external.Publication
                     ELSE extracted.Publication,
     DOI |-> IF external.DOI # "" THEN external.DOI ELSE extracted.DOI,
     Abstract |-> IF external.Abstract # "" THEN external.Abstract ELSE extracted.Abstract,
     ItemType |-> external.ItemType,
     MetadataSource |-> "merged"]

\* What llm.ParseDocument can return for a document of the given type: the
\* model's answer decides the version; a PDF has 0..MaxLen pages with the
\* validator's labels, a text document one page labelled "1".
ParseResults(type) ==
    IF type = "pdf"
    THEN { ParsedItem(v, "", n, IF v = "v1" THEN [i \in 1..n |-> ToString(i)]
                                ELSE [i \in 1..n |-> SourceLabels[i]]) :
           <<v, n>> \in Versions \X (0..MaxLen) }
    ELSE IF type \in {"html", "md", "txt"}
    THEN { ParsedItem(v, "", 1, <<"1">>) : v \in Versions }
    ELSE {}

\* The LLM requests one ParseDocument run issues: one per page of a PDF
\* (parsePDF), one for a text-like document (parseTextDocument).
LLMCallsOf(type, item) == IF type = "pdf" THEN Len(item.Pages) ELSE 1

\* Lines 187/195 of GetOrParseDocument: read back when the id exists, parse
\* otherwise.
MutBranchOnExists(exists) == "parse"
BranchOnExists(exists) == IF exists THEN "retrieve" ELSE "parse"

\* Lines 126-187: fetch (or take the inline bytes), derive the id, ask the
\* store whether it exists.
Begin(c, req, fetchOK, metaOK) ==
    /\ calls[c].pc = "idle"
    /\ LET sourceInfo == [ZoteroID |-> req.zoteroID, URL |-> req.url]
           raw == req.rawData # ""
           data == IF raw THEN req.rawData ELSE ZoteroFile
           type == IF req.docType # "" THEN req.docType ELSE DetectDocumentType(data)
           docID == GenerateDocumentID(sourceInfo, data)
           exists == DocumentExists(db, docID)
       IN IF ~raw /\ ~fetchOK
          THEN calls' = [calls EXCEPT ![c] =
                   [pc |-> "done", err |-> "failed to fetch document data",
                    docID |-> "", llmCalls |-> 0, sawStored |-> FALSE]]
          ELSE calls' = [calls EXCEPT ![c] =
                   [pc |-> BranchOnExists(exists), err |-> "", docID |-> docID,
                    sourceInfo |-> sourceInfo, type |-> type,
                    externalMetadata |-> IF ~raw /\ metaOK THEN ZoteroMetadata ELSE Nil,
                    llmCalls |-> 0,
                    sawStored |-> exists /\ docID \in DOMAIN lastStored]]
    /\ UNCHANGED <<db, lastOp, lastStored, llmVars, toolVars>>

\* Lines 188-194: store.GetParsedItem for an id that existed.
Retrieve(c) ==
    /\ calls[c].pc = "retrieve"
    /\ LET item == GetParsedItem(db, calls[c].docID)
       IN calls' = [calls EXCEPT ![c] =
              IF item = NotFound
              THEN [pc |-> "done", err |-> "failed to retrieve existing document",
                    docID |-> "", llmCalls |-> @.llmCalls, sawStored |-> @.sawStored]
              ELSE [pc |-> "done", err |-> "", docID |-> @.docID, item |-> item,
                    llmCalls |-> @.llmCalls, sawStored |-> @.sawStored, fromStore |-> TRUE,
                    expected |-> IF @.docID \in DOMAIN lastStored
                                 THEN lastStored[@.docID] ELSE Nil]]
    /\ UNCHANGED <<db, lastOp, lastStored, llmVars, toolVars>>

\* Lines 196-218: the API key, llm.ParseDocument, and the metadata merge.
Parse(c, apiKeySet, parseOK) ==
    /\ calls[c].pc = "parse"
    /\ LET call == calls[c]
           failed(msg, n) == [pc |-> "done", err |-> msg, docID |-> "",
                              llmCalls |-> n, sawStored |-> call.sawStored]
       IN IF ~apiKeySet
          THEN calls' = [calls EXCEPT ![c] = failed("OPENAI_API_KEY environment variable not set", 0)]
          ELSE IF ParseResults(call.type) = {}
          THEN calls' = [calls EXCEPT ![c] = failed("failed to parse document", 0)]
          ELSE \E parsed \in ParseResults(call.type) :
                 IF ~parseOK /\ LLMCallsOf(call.type, parsed) > 0
                 THEN calls' = [calls EXCEPT ![c] =
                          failed("failed to parse document", LLMCallsOf(call.type, parsed))]
                 ELSE LET metadata ==
                              IF call.externalMetadata # Nil
                              THEN MergeMetadata(call.externalMetadata, parsed.Metadata)
                              ELSE IF parsed.Metadata.MetadataSource = ""
                              THEN [parsed.Metadata EXCEPT !.MetadataSource = "extracted"]
                              ELSE parsed.Metadata
                      IN calls' = [calls EXCEPT ![c] =
                             [call EXCEPT !.pc = "store",
                                          !.llmCalls = LLMCallsOf(call.type, parsed)]
                             @@ [item |-> [parsed EXCEPT !.Metadata = metadata]]]
    /\ UNCHANGED <<db, lastOp, lastStored, llmVars, toolVars>>

\* Lines 220-229: store.StoreParsedItem and the return.
Store(c, failAt) ==
    /\ calls[c].pc = "store"
    /\ LET call == calls[c]
       IN /\ db' = StoreParsedItemDB(db, call.docID, call.item, call.sourceInfo, failAt)
          /\ IF failAt # 0
             THEN /\ calls' = [calls EXCEPT ![c] =
                        [pc |-> "done", err |-> "failed to store parsed item", docID |-> "",
                         llmCalls |-> call.llmCalls, sawStored |-> call.sawStored]]
                  /\ UNCHANGED lastStored
             ELSE /\ calls' = [calls EXCEPT ![c] =
                        [pc |-> "done", err |-> "", docID |-> call.docID, item |-> call.item,
                         llmCalls |-> call.llmCalls, sawStored |-> call.sawStored,
                         fromStore |-> FALSE, expected |-> Nil]]
                  /\ lastStored' = Put(lastStored, call.docID, call.item)
    /\ UNCHANGED <<lastOp, llmVars, toolVars>>

\* The caller takes the result; it may call again.
Return(c) ==
    /\ calls[c].pc = "done"
    /\ calls' = [calls EXCEPT ![c] = Idle]
    /\ UNCHANGED <<db, lastOp, lastStored, llmVars, toolVars>>

OrchIDs == {"zotero_Z1", "data_h2"}

\* The steps of the GetOrParseDocument calls of the callers in S, and the
\* deletions a client of the store can issue meanwhile.
OrchNextOf(S) ==
    \/ \E c \in S, req \in Requests, fetchOK \in BOOLEAN, metaOK \in BOOLEAN :
          Begin(c, req, fetchOK, metaOK)
    \/ \E c \in S : Retrieve(c)
    \/ \E c \in S, apiKeySet \in BOOLEAN, parseOK \in BOOLEAN : Parse(c, apiKeySet, parseOK)
    \/ \E c \in S :
          /\ calls[c].pc = "store"
          /\ \E failAt \in FailPoints(StoreStatements(calls[c].docID, calls[c].item, calls[c].sourceInfo)) :
                Store(c, failAt)
    \/ \E c \in S : Return(c)
    \/ \E docID \in OrchIDs : DeleteDocument(docID)

\* One caller issuing call after call.
OrchNext == OrchNextOf({"c1"})

SpecOrch == Init /\ [][OrchNext]_vars

(***************************************************************************)
(* Claims about the orchestrator, checked under SpecOrch.                  *)
(***************************************************************************)
InCall(c) == calls[c].pc # "idle"
Succeeded(c) == calls[c].pc = "done" /\ calls[c].err = ""

\* C1: a GetOrParseDocument call that finds in the store an identity stored by
\* an earlier completed call issues no parser or LLM call and never reaches
\* the parse or store steps; when it succeeds, what it returns is the
\* document it read from the store.
C1_CachedCallIssuesNoLLMWork ==
    \A c \in Callers :
        (InCall(c) /\ calls[c].sawStored) =>
            /\ calls[c].llmCalls = 0
            /\ calls[c].pc \notin {"parse", "store"}
            /\ Succeeded(c) => calls[c].fromStore

\* C1 witness: a second call on a stored identity has returned the stored
\* document, whose first parse did cost LLM calls.
C1_Witness ==
    \E c \in Callers :
        /\ Succeeded(c) /\ calls[c].sawStored /\ calls[c].fromStore
        /\ calls[c].docID \in DOMAIN lastStored
        /\ Len(lastStored[calls[c].docID].Pages) > 0

\* C2: the document a cached call reads back from the store equals the
\* document returned by the call that parsed and stored that identity.
C2_CachedEqualsFirstReturn ==
    \A c \in Callers :
        (Succeeded(c) /\ calls[c].fromStore /\ calls[c].expected # Nil) =>
            calls[c].item = calls[c].expected

(***************************************************************************)
(* The page-number validator (page-numbering.go). Pages are numbered from  *)
(* 1 here (Go's index + 1); a confidence is in tenths, so that 0.7 is 7.   *)
(***************************************************************************)

\* most pages of a PDF handed to the validator
MaxInfos == 6

\* const minConfidence = 0.7; const minCoverageRatio = 0.6 (in tenths)
minConfidence == 7
minCoverageRatio == 6

\* pageInfo{number, confidence}; its index is its place in the list
pageInfo(number, confidence) == [number |-> number, confidence |-> confidence]

\* the decimal numerals the labels of the model can be
Numerals == [k \in 0..140 |-> ToString(k)]

\* fmt.Sscanf(label, "%d", &num): the value of a decimal numeral; an error
\* (ok = FALSE) for the other labels of the model ("" and roman numerals)
Labels == {"", "iv"} \cup { Numerals[k] : k \in DOMAIN Numerals }
ScanTable ==
    [label \in Labels |->
        IF \E k \in DOMAIN Numerals : Numerals[k] = label
        THEN [ok |-> TRUE, num |-> CHOOSE k \in DOMAIN Numerals : Numerals[k] = label]
        ELSE [ok |-> FALSE, num |-> 0]]
Sscanf(label) == ScanTable[label]

\* p.confidence >= minConfidence && p.number != ""
IsConfident(p) == p.confidence >= minConfidence /\ p.number # ""

\* the elements of a set of integers in ascending order (the bubble sort)
SortedIndices(S) ==
    [i \in 1..Cardinality(S) |-> CHOOSE x \in S : Cardinality({y \in S : y < x}) = i - 1]

\* currPageNum < expectedMin || currPageNum > expectedMax
MutIsViolation(prevPageNum, currPageNum) ==
    currPageNum < prevPageNum \/ currPageNum > prevPageNum + 4
IsViolation(prevPageNum, currPageNum) ==
    currPageNum < prevPageNum + 1 \/ currPageNum > prevPageNum + 4

\* the violations isMonotonic counts in numbers (index -> parsed number)
Violations(numbers) ==
    LET indices == SortedIndices(DOMAIN numbers)
    IN Cardinality({ i \in 2..Len(indices) :
                       IsViolation(numbers[indices[i - 1]], numbers[indices[i]]) })

\* isMonotonic: float64(violations) / float64(len(indices)-1) <= 0.2, the
\* quotient being correctly rounded, is 5 * violations <= len(indices) - 1
isMonotonic(numbers) ==
    IF Cardinality(DOMAIN numbers) < 2 THEN FALSE
    ELSE 5 * Violations(numbers) <= Cardinality(DOMAIN numbers) - 1

\* parsedNumbers of useSourceNumbers: the confident pages whose label
\* parses as a positive integer
parsedNumbers(pages) ==
    LET idx == { i \in DOMAIN pages :
                   IsConfident(pages[i]) /\ Sscanf(pages[i].number).ok
                                         /\ Sscanf(pages[i].number).num > 0 }
    IN [i \in idx |-> Sscanf(pages[i].number).num]

\* useSourceNumbers (rangeInfo is never read): coverage, then a numeric
\* sequence, then isMonotonic; confidenPages / len(pages) < 0.6 is
\* 10 * confidenPages < 6 * len(pages)
useSourceNumbers(pages) ==
    LET confidenPages == Cardinality({ i \in DOMAIN pages : IsConfident(pages[i]) })
    IN IF 10 * confidenPages < minCoverageRatio * Len(pages) THEN FALSE
       ELSE IF DOMAIN parsedNumbers(pages) = {} THEN FALSE
       ELSE isMonotonic(parsedNumbers(pages))

\* result[i] = fmt.Sprintf("%d", prevNum+offset)
MutInterpolated(prevNum, offset) == ToString(prevNum)
Interpolated(prevNum, offset) == ToString(prevNum + offset)

\* the second pass of extractSourceNumbers from page i on: a page without a
\* number between two numbered pages is interpolated when the index gap
\* equals the number gap, and then counts as numbered itself
RECURSIVE SecondPass(_, _, _)
SecondPass(result, numberedIndices, i) ==
    IF i > Len(result) THEN result
    ELSE IF i \in numberedIndices THEN SecondPass(result, numberedIndices, i + 1)
    ELSE LET before == { j \in numberedIndices : j < i }
             after == { j \in numberedIndices : j > i }
         IN IF before = {} \/ after = {} THEN SecondPass(result, numberedIndices, i + 1)
            ELSE LET prevIdx == CHOOSE j \in before : \A k \in before : k <= j
                     nextIdx == CHOOSE j \in after : \A k \in after : k >= j
                     prev == Sscanf(result[prevIdx])
                     next == Sscanf(result[nextIdx])
                 IN IF prev.ok /\ next.ok /\ nextIdx - prevIdx = next.num - prev.num
                    THEN SecondPass([result EXCEPT ![i] = Interpolated(prev.num, i - prevIdx)],
                                    numberedIndices \cup {i}, i + 1)
                    ELSE SecondPass(result, numberedIndices, i + 1)

\* extractSourceNumbers: the confident numbers, the interpolation, and the
\* sequential number for what is still empty
extractSourceNumbers(pages) ==
    LET first == [i \in DOMAIN pages |-> IF IsConfident(pages[i]) THEN pages[i].number ELSE ""]
        numberedIndices == { i \in DOMAIN pages : IsConfident(pages[i]) }
        second == SecondPass(first, numberedIndices, 1)
    IN [i \in DOMAIN pages |-> IF second[i] = "" THEN ToString(i) ELSE second[i]]

\* validatePageNumbers on pages that are all non-nil (parsePDF returns on
\* the first page error): the source numbers, or 1..n
validatePageNumbers(pages) ==
    IF useSourceNumbers(pages) THEN extractSourceNumbers(pages)
    ELSE [i \in DOMAIN pages |-> ToString(i)]

(***************************************************************************)
(* parsePDF: one goroutine per page, each calling ParsePDFPage, which      *)
(* sends the request to the LLM itself (client.Responses.New).             *)
(***************************************************************************)
\* most pages documents.SplitPdf yields for one PDF
MaxPages == 4

\* the size handed to NewWorkerPool(maxWorkers); ParallelProcess passes
\* defaultMaxWorkers (15)
maxWorkers == 2

\* what ParsePDFPage answers for page p: its content, p % 2 + 1 references
\* and footnotes, p % 2 images, tables and endnotes, a title from page 2 on,
\* and the printed number p + 1
PageEntries(kind, p, n) == [k \in 1..n |-> [kind |-> kind, page |-> p, k |-> k]]
ParsedPage(p) ==
    [Metadata |-> [Title |-> IF p = 1 THEN "" ELSE "title-" \o ToString(p),
                   Authors |-> IF p = 1 THEN << >> ELSE <<"author-" \o ToString(p)>>,
                   PublicationDate |-> "", Publication |-> "", DOI |-> "", Abstract |-> ""],
     Content |-> "page-" \o ToString(p),
     References |-> PageEntries("ref", p, (p % 2) + 1),
     Images |-> PageEntries("img", p, p % 2),
     Tables |-> PageEntries("tbl", p, p % 2),
     Footnotes |-> PageEntries("fn", p, (p % 2) + 1),
     Endnotes |-> PageEntries("en", p, p % 2),
     PageNumberInfo |-> pageInfo(ToString(p + 1), 9)]

\* results := make(chan pageResult, len(pages)): a send never blocks
pageResult(pageNum, ok) ==
    [pageNum |-> pageNum, parsed |-> IF ok THEN ParsedPage(pageNum) ELSE Nil, err |-> ~ok]

\* parsedPages[result.pageNum] = result.parsed: the slot a result goes to,
\* given how many results were collected before it
MutPageSlot(pageNum, collected) == collected + 1
PageSlot(pageNum, collected) == pageNum

\* the first non-empty value of a metadata field over the pages, in order
RECURSIVE FirstNonEmpty(_, _, _)
FirstNonEmpty(pages, field, zero) ==
    IF pages = << >> THEN zero
    ELSE IF Head(pages).Metadata[field] # zero THEN Head(pages).Metadata[field]
    ELSE FirstNonEmpty(Tail(pages), field, zero)

\* append(parsedItem.X, page.X...) over the pages, in order
RECURSIVE AppendAll(_, _)
AppendAll(pages, field) ==
    IF pages = << >> THEN << >>
    ELSE Head(pages)[field] \o AppendAll(Tail(pages), field)

\* the stitching of parsePDF: validatePageNumbers, then the aggregation
\* over the non-nil pages in slice order
Stitch(parsedPages) ==
    LET pages == SelectSeq(parsedPages, LAMBDA page : page # Nil)
    IN [Metadata |-> [Title |-> FirstNonEmpty(pages, "Title", ""),
                      Authors |-> FirstNonEmpty(pages, "Authors", << >>),
                      PublicationDate |-> FirstNonEmpty(pages, "PublicationDate", ""),
                      Publication |-> FirstNonEmpty(pages, "Publication", ""),
                      DOI |-> FirstNonEmpty(pages, "DOI", ""),
                      Abstract |-> FirstNonEmpty(pages, "Abstract", "")],
        Pages |-> [i \in 1..Len(pages) |-> pages[i].Content],
        PageNumbers |-> validatePageNumbers([i \in 1..Len(pages) |-> pages[i].PageNumberInfo]),
        References |-> AppendAll(pages, "References"),
        Images |-> AppendAll(pages, "Images"),
        Tables |-> AppendAll(pages, "Tables"),
        Footnotes |-> AppendAll(pages, "Footnotes"),
        Endnotes |-> AppendAll(pages, "Endnotes")]

\* the request ParsePDFPage sends: nothing on its path waits on the limiter
PageCall(pageNum) == [kind |-> "ParsePDFPage", page |-> pageNum, waited |-> FALSE]

\* parsePDF entry: SplitPdf, then the results channel
parsePDF(n, splitOK) ==
    /\ pdf.pc = "idle"
    /\ pdf' = IF splitOK
              THEN [pc |-> "spawn", n |-> n, i |-> 1,
                    g |-> [p \in 1..n |-> "new"], results |-> << >>,
                    parsedPages |-> {}, slots |-> [p \in 1..n |-> Nil],
                    arrival |-> << >>, item |-> Nil, ret |-> "none"]
              ELSE [pc |-> "done", n |-> 0, i |-> 1,
                    g |-> [p \in {} |-> "new"], results |-> << >>,
                    parsedPages |-> {}, slots |-> << >>,
                    arrival |-> << >>, item |-> Nil, ret |-> "err"]
    /\ UNCHANGED <<storeVars, orchVars, inflight, rl, tokens, ctxDone, toolVars>>

\* for i, page := range pages { go func(...) {...}(i, &page) }
SpawnPage ==
    /\ pdf.pc = "spawn"
    /\ pdf' = IF pdf.i > pdf.n
              THEN [pdf EXCEPT !.pc = "collect"]
              ELSE [pdf EXCEPT !.g[pdf.i] = "spawned", !.i = pdf.i + 1]
    /\ UNCHANGED <<storeVars, orchVars, inflight, rl, tokens, ctxDone, toolVars>>

\* a page goroutine: ParsePDFPage -> client.Responses.New, request sent
ParsePDFPageCall(p) ==
    /\ pdf.pc \in {"spawn", "collect", "done"}
    /\ p \in DOMAIN pdf.g
    /\ pdf.g[p] = "spawned"
    /\ pdf' = [pdf EXCEPT !.g[p] = "calling"]
    /\ inflight' = inflight \cup {PageCall(p)}
    /\ UNCHANGED <<storeVars, orchVars, rl, tokens, ctxDone, toolVars>>

\* the response (or an error) arrives; the goroutine sends its pageResult
ParsePDFPageReturn(p, ok) ==
    /\ pdf.pc \in {"spawn", "collect", "done"}
    /\ p \in DOMAIN pdf.g
    /\ pdf.g[p] = "calling"
    /\ pdf' = [pdf EXCEPT !.g[p] = "sent",
                          !.results = Append(pdf.results, pageResult(p, ok)),
                          !.arrival = Append(pdf.arrival, pageResult(p, ok))]
    /\ inflight' = inflight \ {PageCall(p)}
    /\ UNCHANGED <<storeVars, orchVars, rl, tokens, ctxDone, toolVars>>

\* for range len(pages) { result := <-results; ... }: the first error ends
\* parsePDF while the other goroutines run on
CollectResult ==
    /\ pdf.pc = "collect"
    /\ Cardinality(pdf.parsedPages) < pdf.n
    /\ pdf.results # << >>
    /\ LET result == Head(pdf.results) IN
       pdf' = IF result.err
              THEN [pdf EXCEPT !.pc = "done", !.ret = "err",
                               !.results = Tail(pdf.results)]
              ELSE [pdf EXCEPT !.parsedPages = pdf.parsedPages \cup {result.pageNum},
                               !.slots[PageSlot(result.pageNum, Cardinality(pdf.parsedPages))] =
                                    result.parsed,
                               !.results = Tail(pdf.results)]
    /\ UNCHANGED <<storeVars, orchVars, inflight, rl, tokens, ctxDone, toolVars>>

\* close(results); validatePageNumbers; stitch; return &parsedItem, nil
StitchPages ==
    /\ pdf.pc = "collect"
    /\ Cardinality(pdf.parsedPages) = pdf.n
    /\ pdf' = [pdf EXCEPT !.pc = "done", !.ret = "ok", !.item = Stitch(pdf.slots)]
    /\ UNCHANGED <<storeVars, orchVars, inflight, rl, tokens, ctxDone, toolVars>>

PDFNext ==
    \/ \E n \in 0..MaxPages, splitOK \in BOOLEAN : parsePDF(n, splitOK)
    \/ SpawnPage
    \/ \E p \in 1..MaxPages : ParsePDFPageCall(p)
    \/ \E p \in 1..MaxPages, ok \in BOOLEAN : ParsePDFPageReturn(p, ok)
    \/ CollectResult
    \/ StitchPages

SpecPDF == Init /\ [][PDFNext]_vars

\* C7: at every instant at most pool-size LLM calls are in flight, also
\* while a PDF with more pages than the pool size is being parsed.
C7_InFlightWithinPool == Cardinality(inflight) <= maxWorkers

\* C8: every LLM call that is issued was preceded by a completed
\* token-bucket wait for its estimated token count.
C8_EveryCallWaited == \A call \in inflight : call.waited

(***************************************************************************)
(* RateLimitedCall: one wait on the token bucket, then the retry loop.     *)
(* Durations are in seconds; an error is its message, a sequence of words. *)
(***************************************************************************)
maxRetries == 5
baseRetryDelay == 1
maxRetryDelay == 32

\* a nil error
NoError == << >>

\* what the wrapped fn may return as its error
FnErrors ==
    {<<"POST", "429", "Too Many Requests">>,
     <<"rate limit", "reached">>,
     <<"connection", "refused">>,
     <<"400", "invalid request">>}

containsAny(s, substrs) == \E k \in 1..Len(s) : s[k] \in substrs

isRateLimitError(err) ==
    /\ err # NoError
    /\ containsAny(err, {"429", "rate limit", "rate_limit_exceeded", "Too Many Requests"})

\* if !isRateLimitError(err) { return zero, err }: not a rate limit error, don't retry
MutDontRetry(err) == FALSE
MutNeverRetry(err) == TRUE
DontRetry(err) == ~isRateLimitError(err)

\* fmt.Errorf("...: %w", err): the message of err with a prefix
Wrap(prefix, err) == <<prefix>> \o err

ctxErr == <<"context canceled">>
burstErr == <<"rate: Wait(n) exceeds limiter's burst">>

RECURSIVE Pow2(_)
Pow2(e) == IF e = 0 THEN 1 ELSE 2 * Pow2(e - 1)

\* delay := baseRetryDelay * 2^(attempt-1), capped at maxRetryDelay
BackoffDelay(attempt) ==
    LET delay == baseRetryDelay * Pow2(attempt - 1)
    IN IF delay > maxRetryDelay THEN maxRetryDelay ELSE delay

\* for attempt := 0; attempt <= maxRetries; attempt++
MutLoopCondition(attempt) == attempt < maxRetries
LoopCondition(attempt) == attempt <= maxRetries

\* the estimatedTokens a caller may pass
TokenEstimates == {tokensPerSecond, burstTokens, burstTokens + tokensPerSecond}

Returned(result, err) == [result |-> result, err |-> err]

\* return zero, fmt.Errorf("max retries (%d) exceeded, last error: %w", maxRetries, lastErr)
MaxRetriesExceeded(err) == Returned("zero", Wrap("max retries exceeded, last error", err))

\* entry of RateLimitedCall(ctx, estimatedTokens, log, fn)
RateLimitedCall(n) ==
    /\ rl.pc \in {"idle", "done"}
    /\ rl' = [pc |-> "wait", n |-> n, waited |-> FALSE, waits |-> 0,
              attempt |-> 0, calls |-> 0,
              outcomes |-> << >>, delays |-> << >>, lastErr |-> NoError,
              ret |-> Returned("zero", NoError)]
    /\ UNCHANGED <<storeVars, orchVars, pdf, inflight, tokens, ctxDone, toolVars>>

\* openAIRateLimiter.WaitN(ctx, estimatedTokens): an error when n exceeds the
\* burst or the context is done, else it returns once the bucket holds n
WaitN ==
    /\ rl.pc = "wait"
    /\ \/ /\ rl.n > burstTokens
          /\ rl' = [rl EXCEPT !.pc = "done",
                       !.ret = Returned("zero", Wrap("rate limiter wait failed", burstErr))]
          /\ UNCHANGED tokens
       \/ /\ rl.n <= burstTokens /\ ctxDone
          /\ rl' = [rl EXCEPT !.pc = "done",
                       !.ret = Returned("zero", Wrap("rate limiter wait failed", ctxErr))]
          /\ UNCHANGED tokens
       \/ /\ rl.n <= burstTokens /\ ~ctxDone /\ tokens >= rl.n
          /\ tokens' = tokens - rl.n
          /\ rl' = [rl EXCEPT !.pc = "call", !.waited = TRUE, !.waits = rl.waits + 1]
    /\ UNCHANGED <<storeVars, orchVars, pdf, inflight, ctxDone, toolVars>>

\* the bucket refills at tokensPerSecond up to burstTokens
Refill ==
    /\ tokens < burstTokens
    /\ tokens' = IF tokens + tokensPerSecond > burstTokens
                 THEN burstTokens ELSE tokens + tokensPerSecond
    /\ UNCHANGED <<storeVars, orchVars, pdf, inflight, rl, ctxDone, toolVars>>

\* the caller's context is cancelled
Cancel ==
    /\ ~ctxDone
    /\ ctxDone' = TRUE
    /\ UNCHANGED <<storeVars, orchVars, pdf, inflight, rl, tokens, toolVars>>

\* select { case <-time.After(delay): case <-ctx.Done(): }: the goroutine
\* takes the case that becomes ready first. The timer (a delay of at least
\* baseRetryDelay) is not ready when the select is entered, so a context
\* that is done by then, or cancelled during the delay, wins.
MutBackoffSelect(done) == "timer"
BackoffSelect(done) == IF done THEN "ctx" ELSE "timer"

\* where the loop goes on after the delay: the call of fn (line 74), not
\* the limiter wait above the loop (line 47)
MutAfterBackoff == "wait"
AfterBackoff == "call"

\* if attempt > 0: the delay elapses, or return zero, ctx.Err()
Backoff ==
    /\ rl.pc = "backoff"
    /\ rl' = IF BackoffSelect(ctxDone) = "ctx"
             THEN [rl EXCEPT !.pc = "done", !.ret = Returned("zero", ctxErr)]
             ELSE [rl EXCEPT !.pc = AfterBackoff,
                             !.delays = Append(rl.delays, BackoffDelay(rl.attempt))]
    /\ UNCHANGED <<storeVars, orchVars, pdf, inflight, tokens, ctxDone, toolVars>>

FnCall == [kind |-> "fn", page |-> 0, waited |-> rl.waited]

\* result, err := fn(ctx): the request goes out
CallFn ==
    /\ rl.pc = "call"
    /\ rl' = [rl EXCEPT !.pc = "incall", !.calls = rl.calls + 1]
    /\ inflight' = inflight \cup {FnCall}
    /\ UNCHANGED <<storeVars, orchVars, pdf, tokens, ctxDone, toolVars>>

\* fn returns err: success, a non-rate-limit error, or attempt++ and the
\* loop condition
FnReturn(err) ==
    /\ rl.pc = "incall"
    /\ inflight' = inflight \ {FnCall}
    /\ LET seen == [rl EXCEPT !.outcomes = Append(rl.outcomes, err)] IN
       rl' = IF err = NoError
             THEN [seen EXCEPT !.pc = "done", !.ret = Returned("result", NoError)]
             ELSE IF DontRetry(err)
             THEN [seen EXCEPT !.pc = "done", !.lastErr = err,
                               !.ret = Returned("zero", err)]
             ELSE IF LoopCondition(rl.attempt + 1)
             THEN [seen EXCEPT !.pc = "backoff", !.lastErr = err,
                               !.attempt = rl.attempt + 1]
             ELSE [seen EXCEPT !.pc = "done", !.lastErr = err,
                               !.attempt = rl.attempt + 1,
                               !.ret = MaxRetriesExceeded(err)]
    /\ UNCHANGED <<storeVars, orchVars, pdf, tokens, ctxDone, toolVars>>

RLNext ==
    \/ \E n \in TokenEstimates : RateLimitedCall(n)
    \/ WaitN
    \/ Refill
    \/ Cancel
    \/ Backoff
    \/ CallFn
    \/ \E err \in FnErrors \cup {NoError} : FnReturn(err)

SpecRL == Init /\ [][RLNext]_vars

InRateLimitedCall == rl.pc \notin {"idle"}

Attempts == Len(rl.outcomes)

AllRateLimited == \A k \in 1..Attempts : isRateLimitError(rl.outcomes[k])

\* C9 as stated: a call whose every attempt fails with a rate-limit error
\* is attempted at most 5 times in total.
C9_AtMostFiveAttempts ==
    (InRateLimitedCall /\ AllRateLimited) => Attempts <= 5

\* C9 as the code has it: such a call is attempted at most maxRetries + 1 = 6
\* times (one first attempt and maxRetries retries); the rate-limit failure
\* is surfaced, wrapped as "max retries exceeded", exactly after the 6th
\* failed attempt, and no earlier attempt count surfaces it.
C9_AtMostSixAttempts ==
    (InRateLimitedCall /\ AllRateLimited) =>
        /\ Attempts <= maxRetries + 1
        /\ Attempts = maxRetries + 1 =>
              /\ rl.pc = "done"
              /\ rl.ret = MaxRetriesExceeded(rl.outcomes[Attempts])
              /\ isRateLimitError(rl.ret.err)
        /\ (rl.pc = "done" /\ isRateLimitError(rl.ret.err)) =>
              Attempts = maxRetries + 1

C9_Witness ==
    /\ rl.pc = "done" /\ AllRateLimited
    /\ Attempts = maxRetries + 1
    /\ rl.ret = MaxRetriesExceeded(rl.outcomes[Attempts])
    /\ rl.delays = <<1, 2, 4, 8, 16>>

IsOtherError(err) == err # NoError /\ ~isRateLimitError(err)

\* C10: when the wrapped call returns an error that is not a rate-limit
\* error, RateLimitedCall has invoked it exactly once, has waited for no
\* backoff, and returns that same error unchanged; whenever a
\* non-rate-limit error comes back on any attempt, that attempt is the last
\* and the error is returned as it is.
C10_OtherErrorNotRetried ==
    InRateLimitedCall =>
        /\ (Attempts >= 1 /\ IsOtherError(rl.outcomes[1])) =>
              /\ Attempts = 1
              /\ rl.delays = << >>
              /\ rl.pc = "done"
              /\ rl.ret = Returned("zero", rl.outcomes[1])
        /\ \A k \in 1..Attempts :
              IsOtherError(rl.outcomes[k]) =>
                  /\ k = Attempts
                  /\ rl.pc = "done"
                  /\ rl.ret = Returned("zero", rl.outcomes[k])

C10_Witness ==
    /\ rl.pc = "done"
    /\ Attempts = 1
    /\ IsOtherError(rl.outcomes[1])
    /\ rl.ret.err = rl.outcomes[1]

\* C11: within one RateLimitedCall the token bucket is waited on exactly
\* once, before the first attempt: no attempt is made before that wait has
\* completed, and no retry waits on the bucket again.
C11_OneBucketWait ==
    InRateLimitedCall =>
        /\ rl.waits <= 1
        /\ (rl.calls >= 1 \/ rl.pc \in {"call", "incall", "backoff"}) => rl.waits = 1
        /\ rl.waits = 0 => (rl.calls = 0 /\ rl.pc \in {"wait", "done"})

C11_Witness ==
    /\ rl.pc = "incall"
    /\ rl.calls = 3
    /\ rl.waits = 1

\* C12: when the context is done while RateLimitedCall is in a backoff
\* delay, its next step is to return the cancellation error, and the
\* wrapped call is not invoked again.
C12_CancelDuringBackoffAborts ==
    [][(rl.pc = "backoff" /\ ctxDone /\ rl' # rl) =>
          /\ rl'.pc = "done"
          /\ rl'.ret = Returned("zero", ctxErr)
          /\ rl'.calls = rl.calls
          /\ rl'.outcomes = rl.outcomes]_vars

C12_Witness ==
    /\ rl.pc = "done"
    /\ rl.ret = Returned("zero", ctxErr)
    /\ ctxDone
    /\ rl.calls = 2
    /\ Len(rl.delays) = 1

\* C13: when the wrapped call fails with a rate-limit error on its first k
\* attempts (k below the attempt limit) and then succeeds, RateLimitedCall
\* returns the successful result with no error after exactly k+1
\* invocations; a rate-limit failure below the limit is not what ends the
\* call (only a cancellation during the delay does).
C13_RetryThenSuccess ==
    InRateLimitedCall =>
        /\ (Attempts >= 1 /\ rl.outcomes[Attempts] = NoError) =>
              /\ \A k \in 1..(Attempts - 1) : isRateLimitError(rl.outcomes[k])
              /\ Attempts - 1 <= maxRetries
              /\ rl.pc = "done"
              /\ rl.ret = Returned("result", NoError)
              /\ rl.calls = Attempts
              /\ Len(rl.delays) = Attempts - 1
        /\ (rl.pc = "done" /\ Attempts >= 1 /\ Attempts <= maxRetries
              /\ isRateLimitError(rl.outcomes[Attempts])) =>
              rl.ret = Returned("zero", ctxErr)

C13_Witness ==
    /\ rl.pc = "done"
    /\ Attempts = 3
    /\ isRateLimitError(rl.outcomes[1]) /\ isRateLimitError(rl.outcomes[2])
    /\ rl.ret = Returned("result", NoError)
    /\ rl.calls = 3

(***************************************************************************)
(* WorkerPool and ParallelProcess.                                         *)
(***************************************************************************)
\* longest item list handed to ParallelProcess
MaxItems == 3

\* what processFn(ctx, idx, item) returns for item idx when it succeeds
ProcessValue(idx) == idx * 2

processErr == <<"processing error">>

\* Acquire: select { case wp.semaphore <- struct{}{}: case <-ctx.Done(): },
\* the cases that are ready; Go picks among several ready cases at random
AcquireCases(held, done) ==
    (IF held < maxWorkers THEN {"slot"} ELSE {}) \cup (IF done THEN {"ctx"} ELSE {})

\* Release: <-wp.semaphore, one slot fewer is held
MutRelease(held) == held

Release(held) == held - 1

\* entry of ParallelProcess(ctx, items, log, processFn)
ParallelProcess(n) ==
    /\ pp.pc \in {"idle", "done"}
    /\ pp' = IF n = 0
             THEN [pc |-> "done", n |-> 0, i |-> 1, held |-> 0,
                   g |-> [k \in {} |-> "none"], resultChan |-> << >>,
                   results |-> << >>, got |-> 0, firstError |-> NoError,
                   ret |-> Returned(<< >>, NoError), cancelledAtEntry |-> ctxDone,
                   brokeBlocked |-> FALSE]
             ELSE [pc |-> "spawn", n |-> n, i |-> 1, held |-> 0,
                   g |-> [k \in 1..n |-> "none"], resultChan |-> << >>,
                   results |-> [k \in 1..n |-> 0], got |-> 0, firstError |-> NoError,
                   ret |-> Returned("nil", NoError), cancelledAtEntry |-> ctxDone,
                   brokeBlocked |-> FALSE]
    /\ UNCHANGED <<storeVars, orchVars, llmVars, batch, aug, fnVars>>

\* for i, item := range items: wp.Acquire(ctx), then go func(idx, itm);
\* an Acquire error breaks out of the loop (brokeBlocked: every slot was
\* held, so Acquire was blocked until the context was cancelled)
SpawnWorker(case) ==
    /\ pp.pc = "spawn"
    /\ pp.i <= pp.n
    /\ case \in AcquireCases(pp.held, ctxDone)
    /\ pp' = IF case = "slot"
             THEN [pp EXCEPT !.held = pp.held + 1, !.g[pp.i] = "started", !.i = pp.i + 1]
             ELSE [pp EXCEPT !.pc = "collect", !.brokeBlocked = (pp.held = maxWorkers)]
    /\ UNCHANGED <<storeVars, orchVars, llmVars, batch, aug, fnVars>>

\* the range loop ends
SpawnDone ==
    /\ pp.pc = "spawn"
    /\ pp.i > pp.n
    /\ pp' = [pp EXCEPT !.pc = "collect"]
    /\ UNCHANGED <<storeVars, orchVars, llmVars, batch, aug, fnVars>>

\* a worker's first step: the cancellation check; when the context is done
\* it sends ctx.Err() as its result and returns (defer wp.Release())
WorkerCheck(k) ==
    /\ pp.pc \in {"spawn", "collect"}
    /\ k \in DOMAIN pp.g
    /\ pp.g[k] = "started"
    /\ pp' = IF ctxDone
             THEN [pp EXCEPT !.g[k] = "exited", !.held = Release(pp.held),
                             !.resultChan = Append(pp.resultChan,
                                 [index |-> k, value |-> 0, err |-> ctxErr])]
             ELSE [pp EXCEPT !.g[k] = "processing"]
    /\ UNCHANGED <<storeVars, orchVars, llmVars, batch, aug, fnVars>>

\* val, err := processFn(ctx, idx, itm); resultChan <- ...; wp.Release()
WorkerProcess(k, ok) ==
    /\ pp.pc \in {"spawn", "collect"}
    /\ k \in DOMAIN pp.g
    /\ pp.g[k] = "processing"
    /\ pp' = [pp EXCEPT !.g[k] = "exited", !.held = Release(pp.held),
                        !.resultChan = Append(pp.resultChan,
                            IF ok THEN [index |-> k, value |-> ProcessValue(k), err |-> NoError]
                            ELSE [index |-> k, value |-> 0, err |-> processErr])]
    /\ UNCHANGED <<storeVars, orchVars, llmVars, batch, aug, fnVars>>

\* for range len(items) { res := <-resultChan; ... }: the receive blocks
\* while the channel is empty
CollectOne ==
    /\ pp.pc = "collect"
    /\ pp.got < pp.n
    /\ pp.resultChan # << >>
    /\ LET res == Head(pp.resultChan) IN
       pp' = [pp EXCEPT !.resultChan = Tail(pp.resultChan),
                        !.got = pp.got + 1,
                        !.firstError = IF res.err # NoError /\ pp.firstError = NoError
                                       THEN res.err ELSE pp.firstError,
                        !.results[res.index] = res.value]
    /\ UNCHANGED <<storeVars, orchVars, llmVars, batch, aug, fnVars>>

\* close(resultChan); return nil, firstError or results, nil
ParallelReturn ==
    /\ pp.pc = "collect"
    /\ pp.got = pp.n
    /\ pp' = [pp EXCEPT !.pc = "done",
                        !.ret = IF pp.firstError # NoError
                                THEN Returned("nil", pp.firstError)
                                ELSE Returned(pp.results, NoError)]
    /\ UNCHANGED <<storeVars, orchVars, llmVars, batch, aug, fnVars>>

PPNext ==
    \/ \E n \in 0..MaxItems : ParallelProcess(n)
    \/ \E case \in {"slot", "ctx"} : SpawnWorker(case)
    \/ SpawnDone
    \/ \E k \in 1..MaxItems : WorkerCheck(k)
    \/ \E k \in 1..MaxItems, ok \in BOOLEAN : WorkerProcess(k, ok)
    \/ CollectOne
    \/ ParallelReturn
    \/ Cancel

SpecPP == Init /\ [][PPNext]_vars

\* The main goroutine is blocked on the receive and no worker is left, or
\* will be started, to send.
Hung ==
    /\ pp.pc = "collect"
    /\ pp.got < pp.n
    /\ pp.resultChan = << >>
    /\ \A k \in DOMAIN pp.g : pp.g[k] \in {"none", "exited"}

\* C14: ParallelProcess called with a non-empty item list and a context
\* that is already cancelled terminates (it never ends up blocked for good)
\* and what it returns is a non-nil error.
C14_CancelledParallelProcessReturnsError ==
    (pp # Idle /\ pp.n > 0 /\ pp.cancelledAtEntry) =>
        /\ ~Hung
        /\ pp.pc = "done" => pp.ret.err # NoError

(***************************************************************************)
(* The tool handlers: DocumentParseToolHandler,                            *)
(* DocumentSummarizeToolHandler and DocumentQuotationsToolHandler. Each    *)
(* runs one goroutine per input; element i of a run makes its             *)
(* GetOrParseDocument call as caller CallerOf(i).                          *)
(***************************************************************************)
CallerOf(i) == CallerNames[i]

Kinds == {"parse", "summarize", "quotations"}

\* an empty Error field
NoErrorString == << >>

\* fmt.Sprintf("<tag>: %v", err)
ErrorString(tag, detail) == <<tag, detail>>

\* The fields a handler reads that neither the parsers nor GetParsedItem
\* set keep Go's zero value.
SummaryOf(item) == IF "Summary" \in DOMAIN item THEN item.Summary ELSE ""
QuotationsOf(item) == IF "Quotations" \in DOMAIN item THEN item.Quotations ELSE << >>

\* storage.CalculateResourcePaths(docID, parsedItem)
CalculateResourcePaths(docID, item) ==
    <<"pdf://" \o docID, "pdf://" \o docID \o "/metadata", "pdf://" \o docID \o "/pages">>
    \o (IF Len(item.PageNumbers) > 0
        THEN <<"pdf://" \o docID \o "/pages/" \o item.PageNumbers[1],
               "pdf://" \o docID \o "/pages/" \o item.PageNumbers[Len(item.PageNumbers)]>>
        ELSE << >>)
    \o <<"pdf://" \o docID \o "/pages/{sourcePageNumber}">>
    \o (IF Len(item.References) > 0 THEN <<"pdf://" \o docID \o "/references">> ELSE << >>)
    \o (IF Len(item.Images) > 0 THEN <<"pdf://" \o docID \o "/images">> ELSE << >>)
    \o (IF Len(item.Tables) > 0 THEN <<"pdf://" \o docID \o "/tables">> ELSE << >>)
    \o (IF Len(item.Footnotes) > 0 THEN <<"pdf://" \o docID \o "/footnotes">> ELSE << >>)
    \o (IF Len(item.Endnotes) > 0 THEN <<"pdf://" \o docID \o "/endnotes">> ELSE << >>)
    \o (IF Len(QuotationsOf(item)) > 0 THEN <<"pdf://" \o docID \o "/quotations">> ELSE << >>)

\* a result that carries only an error (and what the handler knows by then)
ErrorResult(docID, title, err) == [DocumentID |-> docID, Title |-> title, Error |-> err]

DocumentParseResult(docID, item) ==
    [DocumentID |-> docID, ResourcePaths |-> CalculateResourcePaths(docID, item),
     Title |-> item.Metadata.Title, PageCount |-> Len(item.Pages),
     RefCount |-> Len(item.References), ImageCount |-> Len(item.Images),
     TableCount |-> Len(item.Tables), Error |-> NoErrorString]

DocumentSummarizeResult(docID, paths, title, summary, err) ==
    [DocumentID |-> docID, ResourcePaths |-> paths, Title |-> title,
     Summary |-> summary, Error |-> err]

DocumentQuotationsResult(docID, paths, title, quotations, err) ==
    [DocumentID |-> docID, ResourcePaths |-> paths, Title |-> title,
     Quotations |-> quotations, QuotationCount |-> Len(quotations), Error |-> err]

\* what llm.SummarizeItem and llm.ExtractQuotations can answer
Summaries == {"summary-a", "summary-b"}
QuotationLists == {<< >>, <<"quote-a">>, <<"quote-b", "quote-c">>}

\* results[idx] = ...: the slot a goroutine writes, given its index and how
\* many results were written before
MutResultSlot(idx, written) == written + 1
ResultSlot(idx, written) == idx

\* after wg.Wait(): ctx.Err() != nil returns nil, nil, ctx.Err(); else the
\* response with the results slice
MutHandlerResponse(results, cancelled) ==
    IF cancelled THEN Returned("nil", ctxErr)
    ELSE IF \E k \in 1..Len(results) : results[k].Error # NoErrorString
    THEN Returned("nil", <<"element failed">>)
    ELSE Returned([Results |-> results, Count |-> Len(results)], NoError)
HandlerResponse(results, cancelled) ==
    IF cancelled THEN Returned("nil", ctxErr)
    ELSE Returned([Results |-> results, Count |-> Len(results)], NoError)

\* the zero value of a result struct
ZeroResult == ErrorResult("", "", NoErrorString)

NoAugment == [summary |-> "", quotations |-> << >>, context |-> ""]
AugmentOf(docID) == IF docID \in DOMAIN aug THEN aug[docID] ELSE NoAugment

\* a goroutine stores its result (under mu) and returns
WriteResult(b, i, res, failed) ==
    [b EXCEPT !.results[ResultSlot(i, b.written)] = res,
              !.written = b.written + 1,
              !.order = Append(b.order, i),
              !.e[i].pc = "exit", !.e[i].own = res, !.e[i].failed = failed]

\* handler entry: the API key check of the summarize and quotations
\* handlers, the inputs, results := make([]..., len(inputs)), one goroutine
\* per input
BatchStart(kind, inputs, apiKeySet) ==
    /\ batch.pc \in {"idle", "done"}
    /\ batch' =
         IF kind # "parse" /\ ~apiKeySet
         THEN [pc |-> "done", kind |-> kind, inputs |-> inputs, written |-> 0,
               order |-> << >>, e |-> << >>, results |-> << >>, cancelled |-> FALSE,
               cancelledAtStart |-> ctxDone,
               resp |-> Returned("nil", <<"OPENAI_API_KEY environment variable not set">>)]
         ELSE [pc |-> "running", kind |-> kind, inputs |-> inputs, written |-> 0,
               order |-> << >>,
               e |-> [i \in 1..Len(inputs) |->
                        [pc |-> "spawned", started |-> FALSE, failed |-> FALSE,
                         sumCalls |-> 0, extCalls |-> 0, context |-> "",
                         prior |-> NoAugment, own |-> ZeroResult]],
               results |-> [i \in 1..Len(inputs) |-> ZeroResult],
               cancelled |-> FALSE, cancelledAtStart |-> ctxDone,
               resp |-> Returned("nil", NoError)]
    /\ calls' = [c \in Callers |-> Idle]
    /\ UNCHANGED <<db, lastOp, lastStored, llmVars, pp, aug, fnVars>>

\* select { case <-ctx.Done(): results[idx] = {Error: "cancelled: ..."}; return; default: }
ElemCheck(i) ==
    /\ batch.pc = "running"
    /\ i \in DOMAIN batch.e
    /\ batch.e[i].pc = "spawned"
    /\ batch' = IF ctxDone
                THEN WriteResult(batch, i,
                         ErrorResult("", "", ErrorString("cancelled", "context canceled")), TRUE)
                ELSE [batch EXCEPT !.e[i].pc = "getorparse", !.e[i].started = TRUE]
    /\ UNCHANGED <<storeVars, orchVars, llmVars, pp, aug, fnVars>>

\* GetOrParseDocument has returned: the error result, the parse result, the
\* cached summary or quotations, or on to the LLM calls
ElemGot(i) ==
    /\ batch.pc = "running"
    /\ i \in DOMAIN batch.e
    /\ batch.e[i].pc = "getorparse"
    /\ calls[CallerOf(i)].pc = "done"
    /\ LET call == calls[CallerOf(i)] IN
       batch' =
         IF call.err # ""
         THEN WriteResult(batch, i, ErrorResult("", "", ErrorString("failed to parse", call.err)), TRUE)
         ELSE LET docID == call.docID
                  item == call.item
                  paths == CalculateResourcePaths(docID, item)
                  title == item.Metadata.Title
                  b == [batch EXCEPT !.e[i] = @ @@ [docID |-> docID, item |-> item, paths |-> paths],
                                     !.e[i].prior = AugmentOf(docID)]
              IN CASE batch.kind = "parse" ->
                        WriteResult(b, i, DocumentParseResult(docID, item), FALSE)
                   [] batch.kind = "summarize" /\ SummaryOf(item) # "" ->
                        WriteResult(b, i, DocumentSummarizeResult(docID, paths, title,
                                              SummaryOf(item), NoErrorString), FALSE)
                   [] batch.kind = "quotations" /\ Len(QuotationsOf(item)) > 0 ->
                        WriteResult(b, i, DocumentQuotationsResult(docID, paths, title,
                                              QuotationsOf(item), NoErrorString), FALSE)
                   [] OTHER -> [b EXCEPT !.e[i].pc = "summarize"]
    /\ UNCHANGED <<storeVars, orchVars, llmVars, pp, aug, fnVars>>

\* parsedItem.Summary = summary / parsedItem.Quotations = quotations: the
\* item handed to the re-store is the item GetOrParseDocument returned with
\* that one field set
MutAugment(item, field, value) == (field :> value) @@ [item EXCEPT !.Metadata.Abstract = "generated"]
Augment(item, field, value) == (field :> value) @@ item

\* summary, err := llm.SummarizeItem(ctx, apiKey, parsedItem, log): the
\* summarize handler writes it into parsedItem.Summary, the quotations
\* handler keeps it as the context of the extraction
ElemSummarize(i, ok, summary) ==
    /\ batch.pc = "running"
    /\ i \in DOMAIN batch.e
    /\ batch.e[i].pc = "summarize"
    /\ LET el == batch.e[i]
           b == [batch EXCEPT !.e[i].sumCalls = el.sumCalls + 1] IN
       batch' =
         IF ~ok
         THEN WriteResult(b, i, ErrorResult(el.docID, el.item.Metadata.Title,
                                  ErrorString("failed to generate summary", "llm error")), TRUE)
         ELSE IF batch.kind = "summarize"
         THEN [b EXCEPT !.e[i].pc = "store",
                        !.e[i].item = Augment(el.item, "Summary", summary)]
         ELSE [b EXCEPT !.e[i].pc = "extract", !.e[i].context = summary]
    /\ UNCHANGED <<storeVars, orchVars, llmVars, pp, aug, fnVars>>

\* quotations, err := llm.ExtractQuotations(ctx, apiKey, parsedItem, summary, maxQuotations, log)
ElemExtract(i, ok, quotations) ==
    /\ batch.pc = "running"
    /\ i \in DOMAIN batch.e
    /\ batch.e[i].pc = "extract"
    /\ LET el == batch.e[i]
           b == [batch EXCEPT !.e[i].extCalls = el.extCalls + 1] IN
       batch' =
         IF ~ok
         THEN WriteResult(b, i, ErrorResult(el.docID, el.item.Metadata.Title,
                                  ErrorString("failed to extract quotations", "llm error")), TRUE)
         ELSE [b EXCEPT !.e[i].pc = "store",
                        !.e[i].item = Augment(el.item, "Quotations", quotations)]
    /\ UNCHANGED <<storeVars, orchVars, llmVars, pp, aug, fnVars>>

\* Summary: summary / Quotations: quotations in the result written when the
\* re-store failed: the generated value, not the zero value
MutKeptOnStoreError(generated, zero) == zero
KeptOnStoreError(generated, zero) == generated

\* store.StoreParsedItem(ctx, docID, parsedItem, sourceInfo) of the updated
\* item, then the result; a store error gives the result with a warning
ElemStore(i, failAt) ==
    /\ batch.pc = "running"
    /\ i \in DOMAIN batch.e
    /\ batch.e[i].pc = "store"
    /\ LET el == batch.e[i]
           inp == batch.inputs[i]
           sourceInfo == [ZoteroID |-> inp.zoteroID, URL |-> inp.url]
           title == el.item.Metadata.Title
           warn(what) == IF failAt = 0 THEN NoErrorString
                         ELSE ErrorString("warning: " \o what \o " but not stored", "store error")
           paths == IF failAt = 0 THEN el.paths ELSE << >>
           res == IF batch.kind = "summarize"
                  THEN DocumentSummarizeResult(el.docID, paths, title,
                           IF failAt = 0 THEN SummaryOf(el.item)
                           ELSE KeptOnStoreError(SummaryOf(el.item), ""),
                           warn("summary generated"))
                  ELSE DocumentQuotationsResult(el.docID, paths, title,
                           IF failAt = 0 THEN QuotationsOf(el.item)
                           ELSE KeptOnStoreError(QuotationsOf(el.item), << >>),
                           warn("quotations extracted"))
       IN /\ db' = StoreParsedItemDB(db, el.docID, el.item, sourceInfo, failAt)
          /\ batch' = WriteResult(batch, i, res, failAt # 0)
          /\ aug' = IF failAt # 0 THEN aug
                    ELSE IF batch.kind = "summarize"
                    THEN Put(aug, el.docID, [AugmentOf(el.docID) EXCEPT !.summary = SummaryOf(el.item)])
                    ELSE Put(aug, el.docID, [AugmentOf(el.docID) EXCEPT !.quotations = QuotationsOf(el.item),
                                                                          !.context = el.context])
    /\ UNCHANGED <<lastOp, orchVars, llmVars, pp, fnVars>>

\* wg.Wait() returns when every goroutine has returned; then the response
BatchReturn ==
    /\ batch.pc = "running"
    /\ \A i \in DOMAIN batch.e : batch.e[i].pc = "exit"
    /\ batch' = [batch EXCEPT !.pc = "done", !.cancelled = ctxDone,
                              !.resp = HandlerResponse(batch.results, ctxDone)]
    /\ UNCHANGED <<storeVars, orchVars, llmVars, pp, aug, fnVars>>

\* what the store can do to the handler's re-store: succeed, fail to begin
\* the transaction, fail to commit
HandlerFailPoints(stmts) == {0, 1, Len(stmts) + 2}

\* the inputs of one run: up to MaxBatch requests
InputLists == UNION { [1..n -> Requests] : n \in 1..MaxBatch }

\* The steps of handler runs of the given kinds on the given input lists
\* (one run after another when again is set); the GetOrParseDocument call of
\* element i is made by caller CallerOf(i).
BatchNextOf(kinds, inputLists, again) ==
    \/ \E kind \in kinds, inputs \in inputLists, apiKeySet \in BOOLEAN :
          /\ again \/ batch.pc = "idle"
          /\ BatchStart(kind, inputs, apiKeySet)
    \/ \E i \in 1..MaxBatch : ElemCheck(i)
    \/ \E i \in 1..MaxBatch, fetchOK \in BOOLEAN, metaOK \in BOOLEAN :
          /\ batch.pc = "running"
          /\ i \in DOMAIN batch.e
          /\ batch.e[i].pc = "getorparse"
          /\ Begin(CallerOf(i), batch.inputs[i], fetchOK, metaOK)
    \/ \E c \in Callers : Retrieve(c)
    \/ \E c \in Callers, parseOK \in BOOLEAN : Parse(c, TRUE, parseOK)
    \/ \E c \in Callers :
          /\ calls[c].pc = "store"
          /\ \E failAt \in HandlerFailPoints(StoreStatements(calls[c].docID, calls[c].item, calls[c].sourceInfo)) :
                Store(c, failAt)
    \/ \E i \in 1..MaxBatch : ElemGot(i)
    \/ \E i \in 1..MaxBatch, ok \in BOOLEAN, summary \in Summaries : ElemSummarize(i, ok, summary)
    \/ \E i \in 1..MaxBatch, ok \in BOOLEAN, quotations \in QuotationLists :
          ElemExtract(i, ok, quotations)
    \/ \E i \in 1..MaxBatch :
          /\ batch.pc = "running"
          /\ i \in DOMAIN batch.e
          /\ batch.e[i].pc = "store"
          /\ \E failAt \in HandlerFailPoints(StoreStatements(batch.e[i].docID, batch.e[i].item,
                                [ZoteroID |-> batch.inputs[i].zoteroID, URL |-> batch.inputs[i].url])) :
                ElemStore(i, failAt)
    \/ BatchReturn

\* One run of any handler on any input list, and the cancellation of its
\* context.
BatchNext == BatchNextOf(Kinds, InputLists, FALSE) \/ Cancel

SpecBatch == Init /\ [][BatchNext]_vars

\* the id GetOrParseDocument derives for a request (lines 134-176)
RequestDocID(req) ==
    GenerateDocumentID([ZoteroID |-> req.zoteroID, URL |-> req.url],
                       IF req.rawData # "" THEN req.rawData ELSE ZoteroFile)

BatchDone == batch.pc = "done" /\ batch.e # << >>

\* C15: when the context is cancelled while a batch is running, the batch
\* still yields one result per input, and every element that had not
\* started carries a cancelled-tagged error in its result.
C15_CancelledBatchYieldsResults ==
    (BatchDone /\ batch.cancelled /\ ~batch.cancelledAtStart) =>
        /\ batch.resp.err = NoError
        /\ Len(batch.resp.result.Results) = Len(batch.inputs)
        /\ \A i \in DOMAIN batch.e :
              ~batch.e[i].started =>
                  /\ batch.resp.result.Results[i].Error # NoErrorString
                  /\ batch.resp.result.Results[i].Error[1] = "cancelled"

C17_ResultsInInputOrder ==
    (BatchDone /\ batch.resp.err = NoError) =>
        /\ batch.resp.result.Count = Len(batch.inputs)
        /\ Len(batch.resp.result.Results) = Len(batch.inputs)
        /\ \A i \in DOMAIN batch.e :
              /\ batch.resp.result.Results[i] = batch.e[i].own
              /\ ~batch.e[i].failed =>
                    batch.resp.result.Results[i].DocumentID = RequestDocID(batch.inputs[i])

C17_Witness ==
    /\ BatchDone /\ batch.resp.err = NoError
    /\ batch.order = <<2, 1>>
    /\ ~batch.e[1].failed /\ ~batch.e[2].failed
    /\ batch.resp.result.Results[1].DocumentID # batch.resp.result.Results[2].DocumentID

\* Summarize and quotations runs, one after another, each on one document
\* (the Zotero attachment or the inline bytes): a later run finds what the
\* earlier runs stored.
AugInputs == { <<req>> : req \in {r \in Requests : r.docType = ""} }

AugNext == BatchNextOf({"summarize", "quotations"}, AugInputs, TRUE)

SpecAug == Init /\ [][AugNext]_vars

\* element i of the running or finished run has its document
Got(i) == batch.e[i].pc \in {"summarize", "extract", "store", "exit"} /\ "docID" \in DOMAIN batch.e[i]

\* C18: once a summarize call succeeded for a document (its summary was
\* stored), a later summarize call for the same document issues no summary
\* LLM call and returns the stored summary text.
C18_StoredSummaryReused ==
    (batch.pc # "idle" /\ batch.kind = "summarize") =>
        \A i \in DOMAIN batch.e :
            (Got(i) /\ batch.e[i].prior.summary # "") =>
                /\ batch.e[i].pc # "summarize"
                /\ batch.e[i].sumCalls = 0
                /\ (batch.e[i].pc = "exit" /\ ~batch.e[i].failed) =>
                       batch.e[i].own.Summary = batch.e[i].prior.summary

\* C19: once an extract-quotations call succeeded with a non-empty list for
\* a document, a later call for the same document issues no LLM call and
\* returns the stored quotations.
C19_StoredQuotationsReused ==
    (batch.pc # "idle" /\ batch.kind = "quotations") =>
        \A i \in DOMAIN batch.e :
            (Got(i) /\ batch.e[i].prior.quotations # << >>) =>
                /\ batch.e[i].pc = "exit"
                /\ batch.e[i].sumCalls = 0
                /\ batch.e[i].extCalls = 0
                /\ ~batch.e[i].failed =>
                       batch.e[i].own.Quotations = batch.e[i].prior.quotations

\* C20: an extract-quotations call on a document whose summary is stored
\* extracts with that summary as the context and issues no summary LLM call.
C20_StoredSummaryIsContext ==
    (batch.pc # "idle" /\ batch.kind = "quotations") =>
        \A i \in DOMAIN batch.e :
            (Got(i) /\ batch.e[i].prior.summary # "" /\ batch.e[i].extCalls > 0) =>
                /\ batch.e[i].sumCalls = 0
                /\ batch.e[i].context = batch.e[i].prior.summary

(***************************************************************************)
(* llm.ExtractQuotations and the maxQuotations limit of the quotations     *)
(* handler. A quotation is modelled by its number in the list the LLM      *)
(* answered with.                                                          *)
(***************************************************************************)

\* most quotations one LLM answer holds
MaxFound == 12

\* maxQuotations := 10 // default
defaultMaxQuotations == 10

\* inp.MaxQuotations, a *int: not given, or a value
NoMaxQuotations == [given |-> FALSE, value |-> 0]
MaxQuotationsInputs ==
    {NoMaxQuotations} \cup { [given |-> TRUE, value |-> v] : v \in {-1, 0, 1, 2, MaxFound - 1} }

\* the limit the handler hands to ExtractQuotations
EffectiveMaxQuotations(inp) ==
    IF ~inp.given THEN defaultMaxQuotations
    ELSE IF inp.value < 0 THEN defaultMaxQuotations
    ELSE inp.value

\* a list of n quotations
QuotationsUpTo(n) == [k \in 1..n |-> k]

\* what an LLM call answers: an error, or a list of quotations
LLMAnswers ==
    { [ok |-> FALSE, quotations |-> << >>] } \cup
    { [ok |-> TRUE, quotations |-> QuotationsUpTo(n)] : n \in 0..MaxFound }

\* prioritizeQuotations: nil and the error, or the list the LLM selected
prioritizeQuotations(quotations, maxQuotations, answer) ==
    IF ~answer.ok THEN Returned(<< >>, <<"llm error">>)
    ELSE Returned(answer.quotations, NoError)

\* ExtractQuotations after the extraction calls: found is what they
\* returned, answer what the prioritisation call answers if it is made
ExtractQuotations(found, maxQuotations, answer) ==
    IF ~found.ok THEN Returned(<< >>, <<"llm error">>)
    ELSE IF maxQuotations > 0 /\ Len(found.quotations) > maxQuotations
    THEN LET p == prioritizeQuotations(found.quotations, maxQuotations, answer)
         IN \* quotations, err = prioritizeQuotations(...): on an error
            \* quotations is already the nil it returned
            Returned(p.result, NoError)
    ELSE Returned(found.quotations, NoError)

\* one element of the quotations handler from the limit to the extraction
ExtractQuotationsCall(inp, found, answer) ==
    /\ quot.pc = "idle"
    /\ quot' = [pc |-> "done", inp |-> inp,
                maxQuotations |-> EffectiveMaxQuotations(inp),
                found |-> found, answer |-> answer,
                ret |-> ExtractQuotations(found, EffectiveMaxQuotations(inp), answer)]
    /\ UNCHANGED <<storeVars, orchVars, llmVars, pp, batch, aug, gen, pnum, auxVars>>

QuotNext ==
    /\ quot.pc = "idle"
    /\ \E inp \in MaxQuotationsInputs, found \in LLMAnswers, answer \in LLMAnswers :
          ExtractQuotationsCall(inp, found, answer)

SpecQuot == Init /\ [][QuotNext]_vars

\* C21: with an effective limit K > 0 (10 when maxQuotations is absent or
\* negative, the caller's value otherwise) the quotation list returned for
\* a document has at most K entries.
C21_AtMostKQuotations ==
    (quot.pc = "done" /\ quot.maxQuotations > 0 /\ quot.ret.err = NoError) =>
        Len(quot.ret.result) <= quot.maxQuotations

\* element i generated its summary (summarize) or its quotations
\* (quotations) and then failed: its re-store failed
StoreFailedAfterGeneration(i) ==
    /\ batch.e[i].pc = "exit" /\ batch.e[i].failed
    /\ "item" \in DOMAIN batch.e[i]
    /\ \/ batch.kind = "summarize" /\ "Summary" \in DOMAIN batch.e[i].item
       \/ batch.kind = "quotations" /\ "Quotations" \in DOMAIN batch.e[i].item

\* C22: when the re-store after a successful summary or quotation
\* generation fails, the element's result holds the generated summary or
\* quotations together with a warning error string.
C22_StoreFailureKeepsGenerated ==
    batch.pc # "idle" =>
        \A i \in DOMAIN batch.e :
            StoreFailedAfterGeneration(i) =>
                LET el == batch.e[i] IN
                /\ el.own.Error # NoErrorString
                /\ el.own.Error[1] \in {"warning: summary generated but not stored",
                                         "warning: quotations extracted but not stored"}
                /\ batch.kind = "summarize" => el.own.Summary = el.item.Summary
                /\ batch.kind = "quotations" => el.own.Quotations = el.item.Quotations

C22_Witness ==
    /\ batch.pc = "done" /\ batch.kind = "quotations" /\ batch.e # << >>
    /\ StoreFailedAfterGeneration(1)
    /\ batch.e[1].own.Quotations = <<"quote-b", "quote-c">>
    /\ batch.resp.err = NoError
    /\ batch.resp.result.Results[1].Quotations = <<"quote-b", "quote-c">>

(***************************************************************************)
(* Concurrent GetOrParseDocument calls for one identity.                   *)
(***************************************************************************)
\* the request every caller makes: the Zotero attachment
RaceRequest == [zoteroID |-> "Z1", url |-> "", rawData |-> "", docType |-> ""]

\* Each caller makes one call, the calls interleaving at their store
\* accesses (DocumentExists, GetParsedItem, StoreParsedItem).
RaceNext ==
    \/ \E c \in Callers, fetchOK \in BOOLEAN, metaOK \in BOOLEAN :
          Begin(c, RaceRequest, fetchOK, metaOK)
    \/ \E c \in Callers : Retrieve(c)
    \/ \E c \in Callers, parseOK \in BOOLEAN : Parse(c, TRUE, parseOK)
    \/ \E c \in Callers :
          /\ calls[c].pc = "store"
          /\ \E failAt \in HandlerFailPoints(StoreStatements(calls[c].docID, calls[c].item, calls[c].sourceInfo)) :
                Store(c, failAt)

SpecRace == Init /\ [][RaceNext]_vars

\* the child rows readable for id are exactly the child lists of item
ChildrenAre(id, item) ==
    /\ GetPages(db, id) = item.Pages
    /\ GetReferences(db, id) = item.References
    /\ GetImages(db, id) = item.Images
    /\ GetTables(db, id) = item.Tables
    /\ GetFootnotes(db, id) = item.Footnotes
    /\ GetEndnotes(db, id) = item.Endnotes

\* every caller has parsed and stored the identity: none found it stored
AllParsedAndStored ==
    \A c \in Callers : Succeeded(c) /\ ~calls[c].fromStore /\ ~calls[c].sawStored

\* C23: when concurrent GetOrParseDocument calls for the same not yet
\* stored identity have all completed, the store holds for that id the
\* document written by one of them, never a mixture of rows of several.
C23_ConcurrentParsesNoMixture ==
    AllParsedAndStored =>
        \E c \in Callers : ChildrenAre(calls[c].docID, calls[c].item)

\* element i of the run takes its re-store step
ReStores(i) ==
    /\ batch.pc = "running" /\ i \in DOMAIN batch.e /\ batch.e[i].pc = "store"
    /\ batch'.e[i].pc = "exit"

PageInfos ==
    { pageInfo("", 0), pageInfo("iv", 9), pageInfo("2", 6) } \cup
    { pageInfo(Numerals[k], minConfidence) : k \in {2, 3, 6, 7} }

\* a 10-page PDF with confident labels 125..133 on pages 2..10
ExamplePages ==
    [i \in 1..10 |-> IF i = 1 THEN pageInfo("", 0) ELSE pageInfo(Numerals[123 + i], 9)]

PageInfoLists == UNION { [1..n -> PageInfos] : n \in 1..MaxInfos } \cup {ExamplePages}

ValidatePageNumbersCall(pages) ==
    /\ pnum.pc = "idle"
    /\ pnum' = [pc |-> "done", pages |-> pages,
                adopted |-> useSourceNumbers(pages),
                labels |-> validatePageNumbers(pages)]
    /\ UNCHANGED <<storeVars, orchVars, llmVars, pp, batch, aug, quot, gen, auxVars>>

\* one call of the validator
PNumNext ==
    /\ pnum.pc = "idle"
    /\ \E pages \in PageInfoLists : ValidatePageNumbersCall(pages)

SpecPNum == Init /\ [][PNumNext]_vars

\* the validator was called and adopted the source labels
Adopted == pnum.pc = "done" /\ pnum.adopted

\* C28: when the validator adopts source labels, the labels it emits are
\* pairwise distinct.
C28_AdoptedLabelsDistinct ==
    Adopted =>
        \A i, j \in DOMAIN pnum.labels : i # j => pnum.labels[i] # pnum.labels[j]

\* H: the pages with confidence >= 0.7 and a non-empty label
ConfidentPages == { i \in DOMAIN pnum.pages :
                      pnum.pages[i].confidence >= 7 /\ pnum.pages[i].number # "" }

\* the pages of H whose label is a decimal numeral above 0, with its value
PositiveNumerals == { Numerals[k] : k \in DOMAIN Numerals \ {0} }
NumeralValue == [label \in PositiveNumerals |-> CHOOSE k \in DOMAIN Numerals : Numerals[k] = label]
ParsedValue(i) == NumeralValue[pnum.pages[i].number]
ParsedPages == { i \in ConfidentPages : pnum.pages[i].number \in PositiveNumerals }

\* the pairs of consecutive parsed pages, in page order, whose values differ
\* by anything other than 1, 2, 3 or 4
ViolatingPairs ==
    { pair \in ParsedPages \X ParsedPages :
        /\ pair[1] < pair[2]
        /\ ~ \E k \in ParsedPages : pair[1] < k /\ k < pair[2]
        /\ ParsedValue(pair[2]) - ParsedValue(pair[1]) \notin 1..4 }

\* coverage of at least 60% and at least two parsed confident labels
C29_Applies ==
    /\ pnum.pc = "done"
    /\ 10 * Cardinality(ConfidentPages) >= 6 * Len(pnum.pages)
    /\ Cardinality(ParsedPages) >= 2

\* C29 as stated: given coverage of at least 60% and at least two parsed
\* confident labels, the validator falls back to "1".."N" exactly when
\* violations / (|H| - 1) > 0.2.
C29_FallbackOverH ==
    C29_Applies =>
        (~pnum.adopted <=> 5 * Cardinality(ViolatingPairs) > Cardinality(ConfidentPages) - 1)

\* C29 amended: given coverage of at least 60% and at least two parsed
\* confident labels, the validator falls back to "1".."N" exactly when
\* violations / (P - 1) > 0.2, where P is the number of confident pages
\* whose label parses as a positive integer; and it then emits "1".."N".
C29_FallbackOverParsed ==
    C29_Applies =>
        /\ ~pnum.adopted <=> 5 * Cardinality(ViolatingPairs) > Cardinality(ParsedPages) - 1
        /\ ~pnum.adopted => pnum.labels = [i \in DOMAIN pnum.pages |-> Numerals[i]]

\* six confident pages of which five parse, with one violation among the
\* four pairs: 1/4 > 0.2 and the validator falls back, though 1/5 <= 0.2
C29_Witness ==
    /\ C29_Applies /\ ~pnum.adopted
    /\ Cardinality(ConfidentPages) = 6 /\ Cardinality(ParsedPages) = 5
    /\ Cardinality(ViolatingPairs) = 1
    /\ pnum.labels = <<"1", "2", "3", "4", "5", "6">>

\* the nearest confident pages before and after page i (0 when none)
AnchorBefore(i) ==
    IF \E j \in ConfidentPages : j < i
    THEN CHOOSE j \in ConfidentPages : j < i /\ \A k \in ConfidentPages : k < i => k <= j
    ELSE 0
AnchorAfter(i) ==
    IF \E j \in ConfidentPages : j > i
    THEN CHOOSE j \in ConfidentPages : j > i /\ \A k \in ConfidentPages : k > i => k >= j
    ELSE 0

\* page i has no confident label and lies between two confident anchors
\* with integer labels whose index gap equals their label gap
Interpolable(i) ==
    /\ i \notin ConfidentPages
    /\ AnchorBefore(i) # 0 /\ AnchorAfter(i) # 0
    /\ AnchorBefore(i) \in ParsedPages /\ AnchorAfter(i) \in ParsedPages
    /\ AnchorAfter(i) - AnchorBefore(i) = ParsedValue(AnchorAfter(i)) - ParsedValue(AnchorBefore(i))

\* C30: when the validator adopts source labels, a page with confidence
\* >= 0.7 and a non-empty label gets its detected label, a page without one
\* between two confident anchors whose index gap equals their label gap
\* gets the linearly interpolated integer, and every other page gets its
\* 1-based sequential index; the 10-page PDF with confident labels 125..133
\* on pages 2..10 yields "1","125",...,"133".
C30_AdoptedLabelValues ==
    Adopted =>
        /\ \A i \in DOMAIN pnum.pages :
              pnum.labels[i] =
                 IF i \in ConfidentPages THEN pnum.pages[i].number
                 ELSE IF Interpolable(i)
                 THEN Numerals[ParsedValue(AnchorBefore(i)) + i - AnchorBefore(i)]
                 ELSE Numerals[i]
        /\ pnum.pages = ExamplePages =>
              pnum.labels = <<"1", "125", "126", "127", "128", "129", "130", "131", "132", "133">>

\* labels 2, 3 and 6, 7 around two pages without a confident label
C30_Witness ==
    /\ Adopted
    /\ Len(pnum.pages) = 6
    /\ ConfidentPages = {1, 2, 5, 6}
    /\ pnum.pages[3].number = "" /\ pnum.pages[4].number = "2"
    /\ pnum.labels = <<"2", "3", "4", "5", "6", "7">>

(***************************************************************************)
(* storage.GenerateDocumentID as a function of its arguments: two calls    *)
(* side by side.                                                           *)
(***************************************************************************)
GenZoteroIDs == {"", "Z1", "Z2"}
GenURLs == {"", "http://u1", "http://u2"}
GenData == {"", "bytes-b1", "bytes-b2"}

\* the arguments of one call: sourceInfo and documentData.Data
GenInputs ==
    { [sourceInfo |-> [ZoteroID |-> z, URL |-> u], data |-> d] :
        z \in GenZoteroIDs, u \in GenURLs, d \in GenData }

\* one more call of GenerateDocumentID, up to two
GenerateDocumentIDCall(in) ==
    /\ gen.pc \in {"idle", "called"}
    /\ LET call == [in |-> in, id |-> GenerateDocumentID(in.sourceInfo, in.data)]
       IN gen' = IF gen.pc = "idle"
                 THEN [pc |-> "called", calls |-> <<call>>]
                 ELSE [pc |-> "done", calls |-> Append(gen.calls, call)]
    /\ UNCHANGED <<storeVars, orchVars, llmVars, pp, batch, aug, quot, pnum, auxVars>>

GenNext ==
    /\ gen.pc # "done"
    /\ \E in \in GenInputs : GenerateDocumentIDCall(in)

SpecGen == Init /\ [][GenNext]_vars

\* C27: the document id is a function of (Zotero id, URL, bytes) with fixed
\* priority: two calls with the same non-empty Zotero id return the same
\* id; without a Zotero id, two calls with the same non-empty URL do;
\* without either, two calls with the same bytes do; and equal arguments
\* always give equal ids.
C27_IdByPriority ==
    gen.pc = "done" =>
        LET x == gen.calls[1].in
            y == gen.calls[2].in
            same == gen.calls[1].id = gen.calls[2].id
        IN /\ x = y => same
           /\ (x.sourceInfo.ZoteroID # "" /\ x.sourceInfo.ZoteroID = y.sourceInfo.ZoteroID) => same
           /\ (x.sourceInfo.ZoteroID = "" /\ y.sourceInfo.ZoteroID = ""
                 /\ x.sourceInfo.URL # "" /\ x.sourceInfo.URL = y.sourceInfo.URL) => same
           /\ (x.sourceInfo.ZoteroID = "" /\ y.sourceInfo.ZoteroID = ""
                 /\ x.sourceInfo.URL = "" /\ y.sourceInfo.URL = "" /\ x.data = y.data) => same

\* two calls with the same Zotero id and different URLs and bytes
C27_Witness ==
    /\ gen.pc = "done"
    /\ gen.calls[1].in.sourceInfo.ZoteroID = "Z1" /\ gen.calls[2].in.sourceInfo.ZoteroID = "Z1"
    /\ gen.calls[1].in.sourceInfo.URL = "http://u1" /\ gen.calls[2].in.sourceInfo.URL = "http://u2"
    /\ gen.calls[1].in.data # gen.calls[2].in.data
    /\ gen.calls[1].id = "zotero_Z1" /\ gen.calls[2].id = "zotero_Z1"

(***************************************************************************)
(* Claims about parsePDF's result, checked under SpecPDF.                  *)
(***************************************************************************)
ChildKinds == {"References", "Images", "Tables", "Footnotes", "Endnotes"}

\* the list holds every entry of every page once, those of an earlier page
\* before those of a later page, and a page's entries in their own order
InPageOrder(list, field) ==
    /\ { list[a] : a \in DOMAIN list } =
          UNION { { ParsedPage(q)[field][k] : k \in DOMAIN ParsedPage(q)[field] } : q \in 1..pdf.n }
    /\ \A a, b \in DOMAIN list :
          a < b => \/ list[a].page < list[b].page
                   \/ list[a].page = list[b].page /\ list[a].k < list[b].k

\* C25: in whatever order the page calls of one PDF parse complete, the
\* document lists the page contents in page-index order, and references,
\* images, tables, footnotes and endnotes in the page-index order of the
\* pages they came from.
C25_StitchedInPageOrder ==
    (pdf.pc = "done" /\ pdf.ret = "ok") =>
        /\ Len(pdf.item.Pages) = pdf.n
        /\ \A q \in 1..pdf.n : pdf.item.Pages[q] = ParsedPage(q).Content
        /\ \A field \in ChildKinds : InPageOrder(pdf.item[field], field)

\* the pages of a parse completed in reverse order
C25_Witness ==
    /\ pdf.pc = "done" /\ pdf.ret = "ok"
    /\ pdf.n = MaxPages
    /\ \A a \in 1..pdf.n : pdf.arrival[a].pageNum = pdf.n + 1 - a
    /\ pdf.item.Pages[1] = "page-1"
    /\ pdf.item.References[1].page = 1

(***************************************************************************)
(* One GetOrParseDocument call on a PDF with its parsePDF run: the call    *)
(* is in llm.ParseDocument while the page goroutines run.                  *)
(***************************************************************************)
\* if err != nil { return "", nil, fmt.Errorf("failed to parse document: %w", err) }
MutParseSucceeded(ret) == TRUE
ParseSucceeded(ret) == ret = "ok"

\* llm.ParseDocument returns what parsePDF returned; the parsed document
\* has the pages of the PDF
ParseDocumentReturn(c, parseOK) ==
    /\ pdf.pc = "done"
    /\ parseOK = ParseSucceeded(pdf.ret)
    /\ Parse(c, TRUE, parseOK)
    /\ calls'[c].llmCalls = pdf.n
    /\ calls'[c].pc = "store" => Len(calls'[c].item.Pages) = pdf.n

PDFCallNext ==
    \/ \E fetchOK \in BOOLEAN, metaOK \in BOOLEAN : Begin("c1", RaceRequest, fetchOK, metaOK)
    \/ \E n \in 0..MaxLen : calls["c1"].pc = "parse" /\ parsePDF(n, TRUE)
    \/ SpawnPage
    \/ \E p \in 1..MaxLen : ParsePDFPageCall(p)
    \/ \E p \in 1..MaxLen, ok \in BOOLEAN : ParsePDFPageReturn(p, ok)
    \/ CollectResult
    \/ StitchPages
    \/ \E parseOK \in BOOLEAN : ParseDocumentReturn("c1", parseOK)
    \/ /\ calls["c1"].pc = "store"
       /\ \E failAt \in HandlerFailPoints(StoreStatements(calls["c1"].docID, calls["c1"].item,
                                                            calls["c1"].sourceInfo)) :
             Store("c1", failAt)

SpecPDFCall == Init /\ [][PDFCallNext]_vars

\* a page parser call of the run has returned an error
PageErrorSeen == pdf.pc # "idle" /\ \E a \in DOMAIN pdf.arrival : pdf.arrival[a].err

\* C26: when a per-page parser call of a PDF parse returns an error,
\* GetOrParseDocument returns an error and stores nothing: the identity
\* stays absent from the store.
C26_PageErrorStoresNothing ==
    PageErrorSeen =>
        /\ calls["c1"].pc \in {"parse", "done"}
        /\ calls["c1"].pc = "done" => calls["c1"].err = "failed to parse document"
        /\ ~DocumentExists(db, RequestDocID(RaceRequest))
        /\ db = initSchema

\* page 2 failed after page 1 was parsed, and the call has returned
C26_Witness ==
    /\ PageErrorSeen
    /\ pdf.n = 2 /\ Len(pdf.arrival) = 2
    /\ ~pdf.arrival[1].err /\ pdf.arrival[1].pageNum = 1 /\ pdf.arrival[2].err
    /\ calls["c1"].pc = "done" /\ calls["c1"].err = "failed to parse document"
    /\ ~DocumentExists(db, "zotero_Z1")

\* the first pass found more than the limit and the prioritisation failed
PrioritisationFailed ==
    /\ quot.pc = "done" /\ quot.found.ok
    /\ quot.maxQuotations > 0 /\ Len(quot.found.quotations) > quot.maxQuotations
    /\ ~quot.answer.ok

\* C36: when the prioritisation pass fails, ExtractQuotations returns no
\* error and its result is the full list of the first pass.
C36_FailedPrioritisationReturnsAll ==
    PrioritisationFailed =>
        /\ quot.ret.err = NoError
        /\ quot.ret.result = quot.found.quotations

\* C40: after an extract-quotations call generated a summary for a
\* document and stored its result, a later summarize call for the same
\* document issues no summary LLM call and returns that summary.
C40_QuotationsSummaryReused ==
    (batch.pc # "idle" /\ batch.kind = "summarize") =>
        \A i \in DOMAIN batch.e :
            (Got(i) /\ batch.e[i].prior.context # "" /\ batch.e[i].prior.summary = "") =>
                /\ batch.e[i].pc # "summarize"
                /\ batch.e[i].sumCalls = 0
                /\ (batch.e[i].pc = "exit" /\ ~batch.e[i].failed) =>
                       batch.e[i].own.Summary = batch.e[i].prior.context

\* C38: ParallelProcess with more items than worker slots whose context is
\* cancelled while it is blocked acquiring a slot never ends up blocked for
\* good once every started processFn has returned.
C38_CancelWhileAcquiringTerminates ==
    (pp # Idle /\ pp.n > maxWorkers /\ ~pp.cancelledAtEntry /\ pp.brokeBlocked) => ~Hung

\* the items whose goroutine was started, and those whose goroutine has
\* returned
StartedItems == { k \in DOMAIN pp.g : pp.g[k] # "none" }
FinishedItems == { k \in DOMAIN pp.g : pp.g[k] = "exited" }

\* C39: the number of held worker slots equals the number of started items
\* that have not finished and never exceeds the pool size.
C39_SlotsMatchUnfinishedItems ==
    pp # Idle =>
        /\ pp.held = Cardinality(StartedItems \ FinishedItems)
        /\ pp.held >= 0
        /\ pp.held <= maxWorkers

C39_Witness ==
    /\ pp # Idle /\ pp.n > maxWorkers
    /\ pp.held = maxWorkers
    /\ FinishedItems # {}

(***************************************************************************)
(* extractQuotationsFromPages: one goroutine per page sends its result on  *)
(* a channel buffered for len(Pages) results; the caller collects them.    *)
(***************************************************************************)
oldVars == <<storeVars, orchVars, llmVars, pp, batch, aug, quot, gen, pnum>>

\* the quotations the LLM finds on page k
PageQuotations(k) == <<k>>

pageErr == <<"page extraction failed">>

\* results := make(chan pageResult, len(parsedItem.Pages)) and the range
\* loop that starts one goroutine per page
extractQuotationsFromPages(n) ==
    /\ eq' = [pc |-> "collect", n |-> n, g |-> [k \in 1..n |-> "running"],
              results |-> << >>, closed |-> FALSE, got |-> 0,
              pageQuotations |-> EmptyTable,
              ret |-> Returned("nil", NoError)]
    /\ UNCHANGED <<oldVars, rsrc, ck, fetch>>

\* the goroutine of page k: the LLM call and the JSON decoding succeed or
\* fail, then results <- pageResult{...}; a send on a closed channel panics
PageTaskSend(k, ok) ==
    /\ eq # Idle
    /\ k \in DOMAIN eq.g
    /\ eq.g[k] = "running"
    /\ eq' = IF eq.closed
              THEN [eq EXCEPT !.g[k] = "panicked"]
              ELSE [eq EXCEPT !.g[k] = "sent",
                              !.results = Append(eq.results,
                                  IF ok THEN [pageNum |-> k, quotations |-> PageQuotations(k), err |-> NoError]
                                  ELSE [pageNum |-> k, quotations |-> << >>, err |-> pageErr])]
    /\ UNCHANGED <<oldVars, rsrc, ck, fetch>>

\* for range len(parsedItem.Pages) { result := <-results; ... }: an error
\* result closes the channel and returns at once
CollectPageResult ==
    /\ eq # Idle
    /\ eq.pc = "collect"
    /\ eq.got < eq.n
    /\ eq.results # << >>
    /\ LET result == Head(eq.results) IN
       eq' = IF result.err # NoError
             THEN [eq EXCEPT !.results = Tail(eq.results), !.closed = TRUE,
                             !.pc = "done", !.ret = Returned("nil", result.err)]
             ELSE [eq EXCEPT !.results = Tail(eq.results), !.got = eq.got + 1,
                             !.pageQuotations = Put(eq.pageQuotations, result.pageNum, result.quotations)]
    /\ UNCHANGED <<oldVars, rsrc, ck, fetch>>

RECURSIVE QuotationsInPageOrder(_, _, _)
QuotationsInPageOrder(table, i, n) ==
    IF i > n THEN << >>
    ELSE (IF i \in DOMAIN table THEN table[i] ELSE << >>) \o QuotationsInPageOrder(table, i + 1, n)

\* close(results) after the last result, then the aggregation in page order
AggregatePages ==
    /\ eq # Idle
    /\ eq.pc = "collect"
    /\ eq.got = eq.n
    /\ eq' = [eq EXCEPT !.closed = TRUE, !.pc = "done",
                        !.ret = Returned(QuotationsInPageOrder(eq.pageQuotations, 1, eq.n), NoError)]
    /\ UNCHANGED <<oldVars, rsrc, ck, fetch>>

EQNext ==
    \/ (eq = Idle /\ \E n \in 1..MaxPages : extractQuotationsFromPages(n))
    \/ \E k \in 1..MaxPages, ok \in BOOLEAN : PageTaskSend(k, ok)
    \/ CollectPageResult
    \/ AggregatePages

SpecEQ == Init /\ [][EQNext]_vars

\* C37: no page task sends on the results channel after the channel was
\* closed (such a send panics), also when one page fails while others are
\* still running.
C37_NoSendAfterClose ==
    eq # Idle => \A k \in DOMAIN eq.g : eq.g[k] # "panicked"

(***************************************************************************)
(* GenerateCitekey: the base key of the metadata and the collision         *)
(* suffixes.                                                               *)
(***************************************************************************)
\* most number-suffixed keys (basez1, basez2, ...) among the existing keys
MaxNum == 2

\* string(suffix) for suffix = 'a' .. 'z'
Letters == <<"a", "b", "c", "d", "e", "f", "g", "h", "i", "j", "k", "l", "m", "n", "o", "p", "q", "r", "s", "t", "u", "v", "w", "x", "y", "z">>

\* string(rune('0' + numSuffix)) for numSuffix = 1, 2, ...
RuneAfterZero == <<"1", "2", "3", "4", "5", "6", "7", "8", "9", ":", ";", "<", "=", ">", "?", "@">>

AuthorNames == {"Smith, John", "Jane Jones", "von Neumann, John", "O'Brien, Pat"}

\* formatAuthorName: the last name ("Last, First" or "First Last"), lower
\* case, the parts of a multi-part last name joined in camel case
formatAuthorName(author) ==
    CASE author = "Smith, John" -> "smith"
      [] author = "Jane Jones" -> "jones"
      [] author = "von Neumann, John" -> "vonNeumann"
      [] author = "O'Brien, Pat" -> "o'brien"
      [] OTHER -> ""

\* strings.ToUpper(string(second[0])) + second[1:]
UpperFirst(name) ==
    CASE name = "smith" -> "Smith"
      [] name = "jones" -> "Jones"
      [] name = "vonNeumann" -> "VonNeumann"
      [] name = "o'brien" -> "O'brien"
      [] OTHER -> name

extractAuthorPart(authors) ==
    IF Len(authors) = 0 THEN ""
    ELSE IF Len(authors) = 1 THEN formatAuthorName(authors[1])
    ELSE IF Len(authors) = 2
         THEN formatAuthorName(authors[1]) \o UpperFirst(formatAuthorName(authors[2]))
    ELSE formatAuthorName(authors[1]) \o "EtAl"

PublicationDates == {"", "2020-01-15", "January 1999", "n.d."}

\* extractYear: the first match of \b(19|20)\d{2}\b, else ""
extractYear(pubDate) ==
    CASE pubDate = "2020-01-15" -> "2020"
      [] pubDate = "January 1999" -> "1999"
      [] OTHER -> ""

\* the runes of s that are letters, digits or underscores
KeptRunes(authorPart) ==
    CASE authorPart = "o'brien" -> "obrien"
      [] authorPart = "o'brienJones" -> "obrienJones"
      [] authorPart = "o'brienEtAl" -> "obrienEtAl"
      [] authorPart = "smithO'brien" -> "smithObrien"
      [] authorPart = "jonesO'brien" -> "jonesObrien"
      [] authorPart = "vonNeumannO'brien" -> "vonNeumannObrien"
      [] authorPart = "o'brienO'brien" -> "obrienObrien"
      [] OTHER -> authorPart

\* baseCitekey := authorPart + year, "unknown" when empty, then
\* sanitizeCitekey: the kept runes, "ref" in front of a leading digit
BaseCitekey(metadata) ==
    LET year == extractYear(metadata.PublicationDate)
        authorPart == extractAuthorPart(metadata.Authors)
    IN  IF authorPart = "" /\ year = "" THEN "unknown"
        ELSE IF authorPart = "" THEN "ref" \o year
        ELSE KeptRunes(authorPart) \o year

\* for existingCitekeys[baseCitekey+"z"+string(rune('0'+numSuffix))] { numSuffix++ }
RECURSIVE NumberSuffix(_, _, _)
NumberSuffix(baseCitekey, existingCitekeys, numSuffix) ==
    IF (baseCitekey \o "z" \o RuneAfterZero[numSuffix]) \in existingCitekeys
    THEN NumberSuffix(baseCitekey, existingCitekeys, numSuffix + 1)
    ELSE numSuffix

\* the number branch, taken once suffix has passed 'z'
MutOutOfLetters(baseCitekey, existingCitekeys) == baseCitekey \o "z" \o RuneAfterZero[1]

OutOfLetters(baseCitekey, existingCitekeys) ==
    baseCitekey \o "z" \o RuneAfterZero[NumberSuffix(baseCitekey, existingCitekeys, 1)]

\* for existingCitekeys[citekey] { citekey = baseCitekey + string(suffix);
\* suffix++; if suffix > 'z' { ...; break } }; suffix counts from 1 for 'a'
RECURSIVE CollisionLoop(_, _, _, _)
CollisionLoop(baseCitekey, existingCitekeys, citekey, suffix) ==
    IF citekey \notin existingCitekeys THEN citekey
    ELSE IF suffix + 1 > Len(Letters)
         THEN OutOfLetters(baseCitekey, existingCitekeys)
         ELSE CollisionLoop(baseCitekey, existingCitekeys,
                            baseCitekey \o Letters[suffix], suffix + 1)

GenerateCitekey(metadata, existingCitekeys) ==
    CollisionLoop(BaseCitekey(metadata), existingCitekeys, BaseCitekey(metadata), 1)

\* The existing keys handed to a call: the first j keys of the chain base,
\* basea, ..., basey, with or without one of them taken out, with or
\* without basez, and the first d number-suffixed keys.
Chain(base) == <<base>> \o [i \in 1..(Len(Letters) - 1) |-> base \o Letters[i]]

ExistingSets(base) ==
    { ({ Chain(base)[i] : i \in 1..j } \ (IF h = 0 THEN {} ELSE {Chain(base)[h]}))
        \cup (IF withZ THEN {base \o "z"} ELSE {})
        \cup { base \o "z" \o RuneAfterZero[n] : n \in 1..d }
        \cup other :
      j \in 0..Len(Letters), h \in {0, 1, 2, Len(Letters)}, withZ \in BOOLEAN, d \in 0..MaxNum,
      other \in {{}, {"smith2020", "jones1999a"}} }

AuthorLists ==
    {<< >>} \cup { <<a>> : a \in AuthorNames }
            \cup { <<a, b>> : a \in AuthorNames, b \in {"Jane Jones", "O'Brien, Pat"} }
            \cup { <<a, "Jane Jones", "Smith, John">> : a \in AuthorNames }

CitekeyMetadata == [Authors : AuthorLists, PublicationDate : PublicationDates]

GenerateCitekeyCall(metadata, existingCitekeys) ==
    /\ ck' = [pc |-> "done", metadata |-> metadata, existing |-> existingCitekeys,
              ret |-> GenerateCitekey(metadata, existingCitekeys)]
    /\ UNCHANGED <<oldVars, eq, rsrc, fetch>>

CKNext ==
    /\ ck = Idle
    /\ \E metadata \in CitekeyMetadata :
          \E existingCitekeys \in ExistingSets(BaseCitekey(metadata)) :
              GenerateCitekeyCall(metadata, existingCitekeys)

SpecCK == Init /\ [][CKNext]_vars

\* C33: the key GenerateCitekey returns is not one of the existing keys it
\* was given.
C33_CitekeyIsFresh ==
    ck.pc = "done" => ck.ret \notin ck.existing

\* every letter suffix and the first number suffixes were taken
C33_Witness ==
    /\ ck.pc = "done"
    /\ Cardinality(ck.existing) >= Len(Letters) + MaxNum
    /\ BaseCitekey(ck.metadata) \in ck.existing
    /\ ck.ret = BaseCitekey(ck.metadata) \o "z" \o RuneAfterZero[MaxNum + 1]

(***************************************************************************)
(* PDFResourceHandler.ReadResource over the store. A URI is modelled by    *)
(* its parts: strings.Split(strings.TrimPrefix(uri, "pdf://"), "/").       *)
(***************************************************************************)
\* an id no document was ever stored under
AbsentID == "zotero_Z9"

ResourceTypes == {"metadata", "pages", "references", "images", "tables", "footnotes", "endnotes"}

\* the table a resource type reads
TableOf(resourceType) ==
    CASE resourceType = "pages" -> "pages"
      [] resourceType = "references" -> "document_references"
      [] resourceType = "images" -> "images"
      [] resourceType = "tables" -> "document_tables"
      [] resourceType = "footnotes" -> "footnotes"
      [] resourceType = "endnotes" -> "endnotes"

\* third parts of a URI: display labels and indices
ThirdParts == {"iv", "v", "0", "1", "2"}

URIs ==
    UNION { {<<id>>} \cup { <<id, t>> : t \in ResourceTypes \cup {"bogus"} }
                    \cup { <<id, t, x>> : t \in ResourceTypes, x \in ThirdParts } :
            id \in StoreIDs \cup {AbsentID} }

\* strconv.Atoi on the strings of the model: the value of a decimal numeral,
\* an error for every other string
Atoi(str) ==
    IF str \in Labels /\ ScanTable[str].ok
    THEN [ok |-> TRUE, num |-> ScanTable[str].num]
    ELSE [ok |-> FALSE, num |-> 0]

errNotFound == <<"not found">>
errInvalidIndex == <<"invalid index">>
errUnknownType == <<"unknown resource type">>

\* getDocumentSummary: GetMetadata fails for an absent documents row; the
\* counts are the lengths of the child lists
getDocumentSummary(d, docID) ==
    IF ~DocumentExists(d, docID) THEN Returned("", errNotFound)
    ELSE Returned([document_id |-> docID, metadata |-> GetMetadata(d, docID),
                   page_count |-> Len(GetPages(d, docID)),
                   ref_count |-> Len(GetReferences(d, docID)),
                   image_count |-> Len(GetImages(d, docID)),
                   table_count |-> Len(GetTables(d, docID)),
                   footnote_count |-> Len(GetFootnotes(d, docID)),
                   endnote_count |-> Len(GetEndnotes(d, docID))], NoError)

getMetadata(d, docID) ==
    IF ~DocumentExists(d, docID) THEN Returned("", errNotFound)
    ELSE Returned(GetMetadata(d, docID), NoError)

\* GetPageBySourceNumber: the rows QueryRow can return, the pages of the
\* document that carry the label (the query has no ORDER BY)
GetPageBySourceNumber(d, docID, label) ==
    { k \in RowsOf(d.pages, docID) : d.pages[k].source_page_number = label }

\* getPageByIdentifier with the row the query returned
getPageByIdentifier(d, docID, pageIdentifier, k) ==
    IF GetPageBySourceNumber(d, docID, pageIdentifier) = {} THEN Returned("", errNotFound)
    ELSE Returned([source_page_number |-> pageIdentifier, content |-> d.pages[k].content], NoError)

\* getAllPages, getAllReferences, ...: the count and the rows, whatever the
\* documents table holds
getAll(d, docID, resourceType) ==
    LET rows == SelectRows(d, TableOf(resourceType), docID)
    IN Returned([count |-> Len(rows), rows |-> rows], NoError)

\* getReference, getImage, ...: the row at the index (0-based in the table)
getOne(d, docID, resourceType, index) ==
    IF <<docID, index>> \in DOMAIN d[TableOf(resourceType)]
    THEN Returned(d[TableOf(resourceType)][<<docID, index>>], NoError)
    ELSE Returned("", errNotFound)

\* what ReadResource returns for the parts of a URI; k is the row
\* GetPageBySourceNumber's query returns when several match
ReadResourceResult(d, parts, k) ==
    LET docID == parts[1]
        resourceType == IF Len(parts) > 1 THEN parts[2] ELSE ""
        parsed == IF Len(parts) > 2 THEN Atoi(parts[3]) ELSE [ok |-> TRUE, num |-> -1]
        index == parsed.num
    IN  IF ~parsed.ok THEN Returned("", errInvalidIndex)
        ELSE IF resourceType = "" THEN getDocumentSummary(d, docID)
        ELSE IF resourceType = "metadata" THEN getMetadata(d, docID)
        ELSE IF resourceType = "pages"
             THEN IF Len(parts) > 2 THEN getPageByIdentifier(d, docID, parts[3], k)
                  ELSE getAll(d, docID, resourceType)
        ELSE IF resourceType \in ResourceTypes
             THEN IF index >= 0 THEN getOne(d, docID, resourceType, index)
                  ELSE getAll(d, docID, resourceType)
        ELSE Returned("", errUnknownType)

\* h.ReadResource(ctx, uri); existed and labelled record the store as the
\* call found it
ReadResource(parts) ==
    LET matches == IF Len(parts) > 2
                   THEN GetPageBySourceNumber(db, parts[1], parts[3]) ELSE {}
    IN /\ \E k \in (IF matches = {} THEN {<<parts[1], 0>>} ELSE matches) :
            rsrc' = [pc |-> "done", parts |-> parts,
                     existed |-> DocumentExists(db, parts[1]),
                     labelled |-> { db.pages[m].content : m \in matches },
                     ret |-> ReadResourceResult(db, parts, k)]
       /\ UNCHANGED <<oldVars, eq, ck, fetch>>

\* stores and deletes, then one read
ResNext ==
    /\ rsrc = Idle
    /\ \/ StoreNext
       \/ \E parts \in URIs : ReadResource(parts)

SpecRes == Init /\ [][ResNext]_vars

\* C31: reading pdf://<id>/pages/<label> for a label stored for a page of
\* the document returns that page, non-numeric labels included.
C31_PageReadByLabel ==
    (rsrc.pc = "done" /\ Len(rsrc.parts) = 3 /\ rsrc.parts[2] = "pages"
        /\ rsrc.existed /\ rsrc.labelled # {}) =>
        /\ rsrc.ret.err = NoError
        /\ rsrc.ret.result.source_page_number = rsrc.parts[3]
        /\ rsrc.ret.result.content \in rsrc.labelled

\* a URI that names the root summary, the metadata, a collection or a
\* single item by its index
WellFormedURI(parts) ==
    /\ Len(parts) > 1 => parts[2] \in ResourceTypes
    /\ Len(parts) > 2 => Atoi(parts[3]).ok

\* C32: reading a well-formed resource URI for an id that is not in the
\* store fails with a not-found error.
C32_AbsentIdNotFound ==
    (rsrc.pc = "done" /\ ~rsrc.existed /\ WellFormedURI(rsrc.parts)) =>
        rsrc.ret.err = errNotFound

(***************************************************************************)
(* GetDataWithMetadata and the GetOrParseDocument steps that depend on the *)
(* payload: a zero-length payload ("empty"), a Zotero web snapshot (a ZIP  *)
(* holding an HTML file), another ZIP, an HTML page, a PDF.                *)
(***************************************************************************)
fetchRest == <<orchVars, llmVars, pp, batch, aug, quot, gen, pnum, eq, rsrc, ck>>

\* the byte slices of the model; NilBytes is Go's nil slice
NilBytes == "nil"
Payloads == {"empty", "zip-snapshot", "zip-other", "html-h1", "pdf-z1"}

\* ExtractHTMLFromZip: the contents of the archive's HTML file
ExtractHTMLFromZip(data) ==
    IF data = "zip-snapshot" THEN Returned("html-h1", NoError)
    ELSE Returned(NilBytes, <<"no HTML file found in ZIP archive">>)

errNoDataProvided == <<"no data provided">>
errNoDataRetrieved == <<"no data retrieved">>
errFetch == <<"fetch failed">>

NoDocumentData == [Data |-> NilBytes, Type |-> ""]

\* GetDataWithMetadata(ctx, sourceInfo): fetched is what GetFromZotero or
\* GetFromURL delivers, fetchOK whether it returned without error; detected
\* records whether DetectDocumentType was reached
GetDataWithMetadata(sourceInfo, fetched, fetchOK) ==
    IF sourceInfo.ZoteroID = "" /\ sourceInfo.URL = ""
    THEN [data |-> NoDocumentData, err |-> errNoDataProvided, detected |-> FALSE]
    ELSE IF ~fetchOK
    THEN [data |-> NoDocumentData, err |-> errFetch, detected |-> FALSE]
    ELSE IF fetched = NilBytes
    THEN [data |-> NoDocumentData, err |-> errNoDataRetrieved, detected |-> FALSE]
    ELSE IF DetectDocumentType(fetched) = "zotero-snapshot"
    THEN IF ExtractHTMLFromZip(fetched).err # NoError
         THEN [data |-> NoDocumentData, err |-> ExtractHTMLFromZip(fetched).err, detected |-> TRUE]
         ELSE [data |-> [Data |-> ExtractHTMLFromZip(fetched).result, Type |-> "html"],
               err |-> NoError, detected |-> TRUE]
    ELSE [data |-> [Data |-> fetched, Type |-> DetectDocumentType(fetched)],
          err |-> NoError, detected |-> TRUE]

\* the data GetOrParseDocument goes on with: the inline bytes with the given
\* or the detected type, or what GetDataWithMetadata returned, its type
\* overridden by a given docType
SourceData(req, fetched, fetchOK) ==
    IF req.rawData # NilBytes
    THEN [data |-> [Data |-> req.rawData,
                    Type |-> IF req.docType = "" THEN DetectDocumentType(req.rawData)
                             ELSE req.docType],
          err |-> NoError, detected |-> (req.docType = "")]
    ELSE LET got == GetDataWithMetadata([ZoteroID |-> req.zoteroID, URL |-> req.url],
                                        fetched, fetchOK)
         IN IF got.err = NoError /\ req.docType # ""
            THEN [got EXCEPT !.data.Type = req.docType]
            ELSE got

\* the types ParseDocument has a parser for
ParsedTypes == {"pdf", "html", "md", "txt"}

FetchRequests ==
    { [zoteroID |-> z, url |-> u, rawData |-> r, docType |-> t] :
        z \in {"", "Z1"}, u \in {"", "http://u1"}, r \in Payloads \cup {NilBytes},
        t \in {"", "html"} }

\* GetOrParseDocument up to the existence check (lines 126-187)
FetchBegin(req, fetched, fetchOK) ==
    /\ fetch = Idle
    /\ LET src == SourceData(req, fetched, fetchOK)
           sourceInfo == [ZoteroID |-> req.zoteroID, URL |-> req.url]
           docID == GenerateDocumentID(sourceInfo, src.data.Data)
           call == [req |-> req, sourceInfo |-> sourceInfo,
                    payload |-> IF req.rawData # NilBytes THEN req.rawData ELSE fetched,
                    fetchOK |-> (req.rawData # NilBytes \/ fetchOK),
                    detected |-> src.detected, data |-> src.data,
                    parsedType |-> "", parsedData |-> NilBytes, stored |-> FALSE,
                    retrieved |-> FALSE]
       IN fetch' = IF src.err # NoError
                   THEN call @@ [pc |-> "done", docID |-> "", ret |-> Returned("nil", src.err)]
                   ELSE call @@ [pc |-> BranchOnExists(DocumentExists(db, docID)),
                                 docID |-> docID, ret |-> Returned("nil", NoError)]
    /\ UNCHANGED <<storeVars, fetchRest>>

\* store.GetParsedItem for an id that exists
FetchRetrieve ==
    /\ fetch.pc = "retrieve"
    /\ fetch' = [fetch EXCEPT !.pc = "done", !.retrieved = TRUE,
                              !.ret = Returned(GetParsedItem(db, fetch.docID), NoError)]
    /\ UNCHANGED <<storeVars, fetchRest>>

\* llm.ParseDocument(ctx, apiKey, data, log): a type without a parser is an
\* error; parsedType and parsedData record what a parser was run on
FetchParse(parseOK) ==
    /\ fetch.pc = "parse"
    /\ fetch' = IF fetch.data.Type \notin ParsedTypes
                THEN [fetch EXCEPT !.pc = "done",
                                   !.ret = Returned("nil", <<"unsupported document type">>)]
                ELSE IF ~parseOK
                THEN [fetch EXCEPT !.pc = "done", !.parsedType = fetch.data.Type,
                                   !.parsedData = fetch.data.Data,
                                   !.ret = Returned("nil", <<"failed to parse document">>)]
                ELSE [fetch EXCEPT !.pc = "store", !.parsedType = fetch.data.Type,
                                   !.parsedData = fetch.data.Data]
    /\ UNCHANGED <<storeVars, fetchRest>>

\* what the parser returns for the data, marked as extracted
FetchedItem(data) ==
    LET item == ParsedItem("v1", "extracted", 1, <<"1">>)
    IN [item EXCEPT !.Pages = <<data.Data>>]

\* store.StoreParsedItem and the return
FetchStore(failed) ==
    /\ fetch.pc = "store"
    /\ db' = StoreParsedItemDB(db, fetch.docID, FetchedItem(fetch.data), fetch.sourceInfo,
                               IF failed THEN 1 ELSE 0)
    /\ fetch' = IF failed
                THEN [fetch EXCEPT !.pc = "done",
                                   !.ret = Returned("nil", <<"failed to store parsed item">>)]
                ELSE [fetch EXCEPT !.pc = "done", !.stored = TRUE,
                                   !.ret = Returned(FetchedItem(fetch.data), NoError)]
    /\ UNCHANGED <<lastOp, fetchRest>>

\* the caller takes the result and may call again
FetchReturn ==
    /\ fetch.pc = "done"
    /\ fetch' = Idle
    /\ UNCHANGED <<storeVars, fetchRest>>

FetchNext ==
    \/ (fetch = Idle /\ \E req \in FetchRequests, fetched \in Payloads \cup {NilBytes},
                            fetchOK \in BOOLEAN : FetchBegin(req, fetched, fetchOK))
    \/ FetchRetrieve
    \/ \E parseOK \in BOOLEAN : FetchParse(parseOK)
    \/ \E failed \in BOOLEAN : FetchStore(failed)
    \/ FetchReturn

SpecFetch == Init /\ [][FetchNext]_vars

\* C34: whenever the payload of a call, inline bytes included, is detected
\* as a Zotero snapshot and no type is given, the parser that runs is the
\* HTML parser and it runs on the HTML extracted from the archive.
C34_SnapshotParsedAsHTML ==
    (fetch # Idle /\ fetch.fetchOK /\ fetch.payload # NilBytes
        /\ DetectDocumentType(fetch.payload) = "zotero-snapshot"
        /\ fetch.req.docType = "" /\ fetch.pc = "done" /\ ~fetch.retrieved) =>
        /\ fetch.parsedType = "html"
        /\ fetch.parsedData = ExtractHTMLFromZip(fetch.payload).result

\* C35: when the chosen source delivers a zero-length payload the call
\* fails with the no-data error and neither detection nor a parser nor the
\* store was reached.
C35_EmptyPayloadFails ==
    (fetch # Idle /\ fetch.fetchOK /\ fetch.payload \in {"empty", NilBytes}
        /\ fetch.req.rawData = NilBytes
        /\ (fetch.req.zoteroID # "" \/ fetch.req.url # "")) =>
        /\ fetch.pc = "done"
        /\ fetch.ret.err = errNoDataRetrieved
        /\ ~fetch.detected
        /\ fetch.parsedType = ""
        /\ ~fetch.stored

====
